---------------------------- MODULE Spec2Model ----------------------------
(***************************************************************************)
(* A model of the tile-grid geometry library bevy_ecs_tilemap: the tile    *)
(* storage (src/tiles/storage.rs), the grid coordinate (src/tiles/mod.rs), *)
(* the world projection (src/helpers/projection.rs), the anchor            *)
(* (src/anchor.rs), the chunk bounding box (src/helpers/transform.rs),     *)
(* the square grid (src/helpers/square_grid/mod.rs) and the region         *)
(* generators (src/helpers/filling.rs).                                    *)
(*                                                                         *)
(* An f32 length v (a grid or tile size, a world coordinate) is held as    *)
(* the integer 16 * v; the sizes and positions drawn are multiples of 1/16 *)
(* for which every product, halving and quartering below is exact, as it   *)
(* is in f32.  A fractional grid coordinate is a numerator over a stated   *)
(* denominator.                                                            *)
(* Option<Entity> is 0 (None) or an entity id 1..MaxEntity.                *)
(* Option<TilePos> is <<>> (None) or <<[x |-> .., y |-> ..]>> (Some).      *)
(* A Vec<T> is a sequence; Rust index i is TLA+ index i + 1.               *)
(***************************************************************************)
EXTENDS Integers, Sequences, FiniteSets, TLC

VARIABLES
    \* ---- TileStorage and the last call made on it
    tiles,      \* TileStorage.tiles : Vec<Option<Entity>>
    size,       \* TileStorage.size  : TilemapSize
    op,         \* the last call: "empty", "get", "set", ...
    pos,        \* its tile_pos argument
    ret,        \* the Option<Entity> it returned (0 when it returns nothing)
    panicked,   \* whether it panicked (index out of range)
    drainIx,    \* position of the live drain() iterator, -1 when there is none
    shadow,     \* the partial map the calls made so far describe
    clean,      \* only in-bounds positions and fully consumed drains so far
    drainStart, \* the cells when the live drain() iterator was created
    yielded,    \* the entities the live drain() iterator has returned so far
    mapped,     \* the get_mapped calls the last call made, in order
    \* ---- a call of one of the integer grid functions
    coord,      \* the coordinate passed (signed x, y or q, r)
    extent,     \* the map_size passed
    call,       \* the function applied and its other arguments
    result,     \* what it returned
    \* ---- a call of one of the projection functions
    map_size,   \* TilemapSize
    grid_size,  \* TilemapGridSize
    tile_size,  \* TilemapTileSize
    map_type,   \* TilemapType
    anchor,     \* TilemapAnchor
    pcall,      \* the function applied last
    tile,       \* the TilePos passed to center_in_world
    world,      \* the Vec2 center_in_world returned / from_world_pos was given
    recon,      \* the Option<TilePos> from_world_pos returned
    offset,     \* the Vec2 as_offset returned
    \* ---- a call of one of the fill functions of helpers/filling.rs
    ftiles,         \* tile_storage.tiles
    fsize,          \* tile_storage.size
    world_entities, \* entity id i -> its TilePos component (<<>> if it has none)
    fcall,          \* the function applied and its arguments
    fpanicked       \* whether it panicked

storageVars == <<tiles, size, op, pos, ret, panicked, drainIx, shadow, clean,
                 drainStart, yielded, mapped>>

gridVars == <<coord, extent, call, result>>

projVars == <<map_size, grid_size, tile_size, map_type, anchor,
              pcall, tile, world, recon, offset>>

fillVars == <<ftiles, fsize, world_entities, fcall, fpanicked>>

vars == <<storageVars, gridVars, projVars, fillVars>>

nonStorageVars == <<gridVars, projVars, fillVars>>
nonGridVars == <<storageVars, projVars, fillVars>>
nonProjVars == <<storageVars, gridVars, fillVars>>
nonFillVars == <<storageVars, gridVars, projVars>>

-----------------------------------------------------------------------------
(* Bounds of the model *)

\* the storage holds at most MaxCells cells (width * height)
MaxCells == 4
\* entity ids are 1..MaxEntity
MaxEntity == 2
\* signed grid coordinates passed to the grid functions are -MaxCoord..MaxCoord
MaxCoord == 4
\* maps passed to the grid and projection functions are at most MaxMapDim wide
\* and high
MaxMapDim == 3
\* hex rings and hexagons are generated for radius 0..MaxRadius
MaxRadius == 3
\* i32::MAX
I32Max == 2147483647

-----------------------------------------------------------------------------
(* Option and small helpers *)

None == 0
Entities == 1..MaxEntity

NoTile == <<>>
SomeTile(x, y) == <<[x |-> x, y |-> y]>>

Min2(a, b) == IF a < b THEN a ELSE b
Max2(a, b) == IF a > b THEN a ELSE b

-----------------------------------------------------------------------------
(* src/tiles/mod.rs : TilePos *)

TilePos(x, y) == [x |-> x, y |-> y]

\* TilePos::to_index with the height of the map as the length of a row
to_index_by_height(p, sz) == p.y * sz.y + p.x

\* TilePos::to_index: (self.y * tilemap_size.x + self.x) as usize
to_index(p, sz) == p.y * sz.x + p.x

\* TilePos::within_map_bounds
within_map_bounds(p, sz) == p.x < sz.x /\ p.y < sz.y

-----------------------------------------------------------------------------
(* src/tiles/storage.rs : TileStorage *)

\* TileStorage::empty: vec![None; size.count()]
empty(sz) == [i \in 1..(sz.x * sz.y) |-> None]

\* Vec indexing self.tiles[i]: panics unless i < len
IndexPanics(ts, i) == ~(i < Len(ts))

\* TileStorage::get: self.tiles[tile_pos.to_index(&self.size)]
get(ts, sz, p) ==
    LET i == to_index(p, sz) IN
    IF IndexPanics(ts, i)
    THEN [panic |-> TRUE, val |-> None]
    ELSE [panic |-> FALSE, val |-> ts[i + 1]]

\* A checked_get that tests the flattened index against the length, not the
\* position against the extents.
checked_get_index_only(ts, sz, p) ==
    IF to_index(p, sz) < Len(ts)
    THEN get(ts, sz, p)
    ELSE [panic |-> FALSE, val |-> None]

\* TileStorage::checked_get
checked_get(ts, sz, p) ==
    IF within_map_bounds(p, sz)
    THEN get(ts, sz, p)
    ELSE [panic |-> FALSE, val |-> None]

\* TileStorage::set: self.tiles[index].replace(tile_entity)
set(ts, sz, p, e) ==
    LET i == to_index(p, sz) IN
    IF IndexPanics(ts, i)
    THEN [panic |-> TRUE, tiles |-> ts]
    ELSE [panic |-> FALSE, tiles |-> [ts EXCEPT ![i + 1] = e]]

\* TileStorage::checked_set
checked_set(ts, sz, p, e) ==
    IF within_map_bounds(p, sz)
    THEN set(ts, sz, p, e)
    ELSE [panic |-> FALSE, tiles |-> ts]

\* A remove that returns the entity but leaves it in the cell.
remove_keeps_entity(ts, sz, p) ==
    LET i == to_index(p, sz) IN
    IF IndexPanics(ts, i)
    THEN [panic |-> TRUE, val |-> None, tiles |-> ts]
    ELSE [panic |-> FALSE, val |-> ts[i + 1], tiles |-> ts]

\* TileStorage::remove: self.tiles[index].take()
remove(ts, sz, p) ==
    LET i == to_index(p, sz) IN
    IF IndexPanics(ts, i)
    THEN [panic |-> TRUE, val |-> None, tiles |-> ts]
    ELSE [panic |-> FALSE, val |-> ts[i + 1],
          tiles |-> [ts EXCEPT ![i + 1] = None]]

\* TileStorage::checked_remove: self.tiles.get_mut(index)?.take()
checked_remove(ts, sz, p) ==
    LET i == to_index(p, sz) IN
    IF i < Len(ts)
    THEN [panic |-> FALSE, val |-> ts[i + 1],
          tiles |-> [ts EXCEPT ![i + 1] = None]]
    ELSE [panic |-> FALSE, val |-> None, tiles |-> ts]

\* A next() that returns the entity of the first occupied cell but leaves it
\* in the cell (no take).
RECURSIVE drain_next_without_take(_, _)
drain_next_without_take(ts, ix) ==
    IF ix >= Len(ts)
    THEN [val |-> None, tiles |-> ts, ix |-> ix]
    ELSE IF ts[ix + 1] # None
         THEN [val |-> ts[ix + 1], tiles |-> ts, ix |-> ix + 1]
         ELSE drain_next_without_take(ts, ix + 1)

\* A next() of an eager drain: the first call empties every cell.
drain_next_taking_all(ts, ix) ==
    LET r == drain_next_without_take(ts, ix)
    IN [val |-> r.val, tiles |-> [i \in 1..Len(ts) |-> None], ix |-> r.ix]

\* One next() of the iterator drain() returns,
\* self.tiles.iter_mut().filter_map(|opt| opt.take()), from position ix:
\* cells are visited (and taken) up to and including the first occupied one.
RECURSIVE drain_next(_, _)
drain_next(ts, ix) ==
    IF ix >= Len(ts)
    THEN [val |-> None, tiles |-> ts, ix |-> ix]
    ELSE IF ts[ix + 1] # None
         THEN [val |-> ts[ix + 1],
               tiles |-> [ts EXCEPT ![ix + 1] = None],
               ix |-> ix + 1]
         ELSE drain_next(ts, ix + 1)

\* map_entities that writes the mapped entities to the first cells
map_entities_compacting(ts, entity_mapper) ==
    LET occupied == SelectSeq(ts, LAMBDA e : e # None)
    IN [tiles |-> [i \in 1..Len(ts) |->
                      IF i <= Len(occupied)
                      THEN entity_mapper[occupied[i]]
                      ELSE None],
        calls |-> [k \in 1..Len(occupied) |->
                      [source |-> occupied[k],
                       target |-> entity_mapper[occupied[k]]]]]

\* impl MapEntities for TileStorage: for entity in
\* self.tiles.iter_mut().flatten() { *entity = entity_mapper.get_mapped(*entity) }.
\* calls are the get_mapped calls made, in order.
map_entities(ts, entity_mapper) ==
    LET occupied == SelectSeq(ts, LAMBDA e : e # None)
    IN [tiles |-> [i \in 1..Len(ts) |->
                      IF ts[i] = None THEN None ELSE entity_mapper[ts[i]]],
        calls |-> [k \in 1..Len(occupied) |->
                      [source |-> occupied[k],
                       target |-> entity_mapper[occupied[k]]]]]

-----------------------------------------------------------------------------
(* The storage as a state machine: one action per method call *)

\* map extents with at most MaxCells cells
Sizes == {sz \in [x : 1..MaxCells, y : 1..MaxCells] : sz.x * sz.y <= MaxCells}

\* the positions a caller passes: in bounds, or one past the extent
ArgPositions(sz) == [x : 0..sz.x, y : 0..sz.y]

InBounds(sz) == {p \in ArgPositions(sz) : p.x < sz.x /\ p.y < sz.y}

EmptyShadow(sz) == [p \in InBounds(sz) |-> None]

\* the partial map after a call at p that leaves v there
ShadowAfter(p, v, stillClean) ==
    IF stillClean THEN [shadow EXCEPT ![p] = v] ELSE EmptyShadow(size)

StorageInit ==
    /\ size \in Sizes
    /\ tiles = empty(size)
    /\ op = "empty"
    /\ pos = TilePos(0, 0)
    /\ ret = None
    /\ panicked = FALSE
    /\ drainIx = -1
    /\ shadow = EmptyShadow(size)
    /\ clean = TRUE
    /\ drainStart = <<>>
    /\ yielded = <<>>
    /\ mapped = <<>>

Get ==
    /\ drainIx = -1
    /\ \E p \in ArgPositions(size) :
        LET r == get(tiles, size, p) IN
        /\ op' = "get"
        /\ pos' = p
        /\ ret' = r.val
        /\ panicked' = r.panic
        /\ clean' = (clean /\ within_map_bounds(p, size))
        /\ shadow' = IF clean' THEN shadow ELSE EmptyShadow(size)
    /\ UNCHANGED <<tiles, size, drainIx, drainStart, yielded>>
    /\ mapped' = <<>>
    /\ UNCHANGED nonStorageVars

CheckedGet ==
    /\ drainIx = -1
    /\ \E p \in ArgPositions(size) :
        LET r == checked_get(tiles, size, p) IN
        /\ op' = "checked_get"
        /\ pos' = p
        /\ ret' = r.val
        /\ panicked' = r.panic
        /\ clean' = (clean /\ within_map_bounds(p, size))
        /\ shadow' = IF clean' THEN shadow ELSE EmptyShadow(size)
    /\ UNCHANGED <<tiles, size, drainIx, drainStart, yielded>>
    /\ mapped' = <<>>
    /\ UNCHANGED nonStorageVars

Set ==
    /\ drainIx = -1
    /\ \E p \in ArgPositions(size), e \in Entities :
        LET r == set(tiles, size, p, e) IN
        /\ op' = "set"
        /\ pos' = p
        /\ ret' = None
        /\ panicked' = r.panic
        /\ tiles' = r.tiles
        /\ clean' = (clean /\ within_map_bounds(p, size))
        /\ shadow' = ShadowAfter(p, e, clean')
    /\ UNCHANGED <<size, drainIx, drainStart, yielded>>
    /\ mapped' = <<>>
    /\ UNCHANGED nonStorageVars

CheckedSet ==
    /\ drainIx = -1
    /\ \E p \in ArgPositions(size), e \in Entities :
        LET r == checked_set(tiles, size, p, e) IN
        /\ op' = "checked_set"
        /\ pos' = p
        /\ ret' = None
        /\ panicked' = r.panic
        /\ tiles' = r.tiles
        /\ clean' = (clean /\ within_map_bounds(p, size))
        /\ shadow' = ShadowAfter(p, e, clean')
    /\ UNCHANGED <<size, drainIx, drainStart, yielded>>
    /\ mapped' = <<>>
    /\ UNCHANGED nonStorageVars

Remove ==
    /\ drainIx = -1
    /\ \E p \in ArgPositions(size) :
        LET r == remove(tiles, size, p) IN
        /\ op' = "remove"
        /\ pos' = p
        /\ ret' = r.val
        /\ panicked' = r.panic
        /\ tiles' = r.tiles
        /\ clean' = (clean /\ within_map_bounds(p, size))
        /\ shadow' = ShadowAfter(p, None, clean')
    /\ UNCHANGED <<size, drainIx, drainStart, yielded>>
    /\ mapped' = <<>>
    /\ UNCHANGED nonStorageVars

CheckedRemove ==
    /\ drainIx = -1
    /\ \E p \in ArgPositions(size) :
        LET r == checked_remove(tiles, size, p) IN
        /\ op' = "checked_remove"
        /\ pos' = p
        /\ ret' = r.val
        /\ panicked' = r.panic
        /\ tiles' = r.tiles
        /\ clean' = (clean /\ within_map_bounds(p, size))
        /\ shadow' = ShadowAfter(p, None, clean')
    /\ UNCHANGED <<size, drainIx, drainStart, yielded>>
    /\ mapped' = <<>>
    /\ UNCHANGED nonStorageVars

\* drain(): the iterator is created; nothing is removed yet
Drain ==
    /\ drainIx = -1
    /\ op' = "drain"
    /\ pos' = TilePos(0, 0)
    /\ ret' = None
    /\ panicked' = FALSE
    /\ drainIx' = 0
    /\ drainStart' = tiles
    /\ yielded' = <<>>
    /\ UNCHANGED <<tiles, size, shadow, clean>>
    /\ mapped' = <<>>
    /\ UNCHANGED nonStorageVars

\* next() on the live iterator; the storage is borrowed until it is dropped.
\* A next() that returns None has consumed the iterator fully.
DrainNext ==
    /\ drainIx >= 0
    /\ op \in {"drain", "drain_next"}
    /\ LET r == drain_next(tiles, drainIx) IN
        /\ op' = IF r.val = None THEN "drain_done" ELSE "drain_next"
        /\ ret' = r.val
        /\ tiles' = r.tiles
        /\ drainIx' = r.ix
        /\ shadow' = IF r.val = None /\ clean
                     THEN EmptyShadow(size) ELSE shadow
        /\ yielded' = IF r.val = None THEN yielded ELSE Append(yielded, r.val)
    /\ pos' = TilePos(0, 0)
    /\ panicked' = FALSE
    /\ UNCHANGED <<size, clean, drainStart>>
    /\ mapped' = <<>>
    /\ UNCHANGED nonStorageVars

\* the iterator is dropped, fully consumed or not
DrainDrop ==
    /\ drainIx >= 0
    /\ clean' = (clean /\ op = "drain_done")
    /\ shadow' = IF clean' THEN shadow ELSE EmptyShadow(size)
    /\ op' = "drain_drop"
    /\ drainIx' = -1
    /\ drainStart' = <<>>
    /\ yielded' = <<>>
    /\ pos' = TilePos(0, 0)
    /\ ret' = None
    /\ panicked' = FALSE
    /\ UNCHANGED <<tiles, size>>
    /\ mapped' = <<>>
    /\ UNCHANGED nonStorageVars

\* the entity mappers passed: the identity, the next entity (as the
\* AddOneMapper of the tests, cyclically) and one that sends every entity to
\* the same one
Mappers ==
    {[e \in Entities |-> e],
     [e \in Entities |-> (e % MaxEntity) + 1],
     [e \in Entities |-> MaxEntity]}

MapEntities ==
    /\ drainIx = -1
    /\ \E entity_mapper \in Mappers :
        LET r == map_entities(tiles, entity_mapper) IN
        /\ tiles' = r.tiles
        /\ mapped' = r.calls
        /\ shadow' = IF clean
                     THEN [p \in DOMAIN shadow |->
                              IF shadow[p] = None
                              THEN None
                              ELSE entity_mapper[shadow[p]]]
                     ELSE shadow
    /\ op' = "map_entities"
    /\ pos' = TilePos(0, 0)
    /\ ret' = None
    /\ panicked' = FALSE
    /\ UNCHANGED <<size, drainIx, clean, drainStart, yielded>>
    /\ UNCHANGED nonStorageVars

StorageNext ==
    \/ Get
    \/ CheckedGet
    \/ Set
    \/ CheckedSet
    \/ Remove
    \/ CheckedRemove
    \/ Drain
    \/ DrainNext
    \/ DrainDrop
    \/ MapEntities

-----------------------------------------------------------------------------
(* src/helpers/projection.rs : TilePos::from_i32_pair *)

\* from_i32_pair accepting x = msize.x and y = msize.y (<= for <).
from_i32_pair_off_by_one(x, y, msize) ==
    IF x < 0 \/ y < 0
    THEN NoTile
    ELSE IF x <= msize.x /\ y <= msize.y
         THEN SomeTile(x, y)
         ELSE NoTile

\* from_i32_pair without the test for negative components.
from_i32_pair_ignoring_sign(x, y, msize) ==
    IF within_map_bounds(TilePos(x, y), msize)
    THEN SomeTile(x, y)
    ELSE NoTile

\* TilePos::from_i32_pair
from_i32_pair(x, y, msize) ==
    IF x < 0 \/ y < 0
    THEN NoTile
    ELSE IF within_map_bounds(TilePos(x, y), msize)
         THEN SomeTile(x, y)
         ELSE NoTile

-----------------------------------------------------------------------------
(* src/helpers/square_grid/mod.rs : SquarePos, and                         *)
(* helpers/square_grid/neighbors.rs : SquareDirection, Neighbors           *)

SquarePos(x, y) == [x |-> x, y |-> y]

\* SquareDirection, in declaration order (the index into SQUARE_OFFSETS)
SquareDirections ==
    <<"East", "NorthEast", "North", "NorthWest",
      "West", "SouthWest", "South", "SouthEast">>

DirectionIndex(d) == CHOOSE i \in 1..8 : SquareDirections[i] = d

\* SQUARE_OFFSETS
SQUARE_OFFSETS ==
    <<SquarePos(1, 0), SquarePos(1, 1), SquarePos(0, 1), SquarePos(-1, 1),
      SquarePos(-1, 0), SquarePos(-1, -1), SquarePos(0, -1), SquarePos(1, -1)>>

DiagonalDirections == {"NorthEast", "NorthWest", "SouthWest", "SouthEast"}

\* impl Add<SquarePos> for SquarePos
SquareAdd(a, b) == SquarePos(a.x + b.x, a.y + b.y)

\* impl From<&TilePos> for SquarePos
SquareFromTilePos(tile_pos) == SquarePos(tile_pos.x, tile_pos.y)

\* SquarePos::as_tile_pos
as_tile_pos(p, msize) == from_i32_pair(p.x, p.y, msize)

\* A SquarePos::offset that indexes SQUARE_OFFSETS one entry too far.
offset_in_next_direction(p, direction) ==
    SquareAdd(p, SQUARE_OFFSETS[(DirectionIndex(direction) % 8) + 1])

\* A SquarePos::offset whose y axis points down: North steps to y - 1.
offset_in_direction_y_down(p, direction) ==
    LET o == SQUARE_OFFSETS[DirectionIndex(direction)]
    IN SquarePos(p.x + o.x, p.y - o.y)

\* SquarePos::offset: *self + SQUARE_OFFSETS[*direction as usize]
offset_in_direction(p, direction) ==
    SquareAdd(p, SQUARE_OFFSETS[DirectionIndex(direction)])

\* TilePos::square_offset
square_offset(tile_pos, direction, msize) ==
    as_tile_pos(offset_in_direction(SquareFromTilePos(tile_pos), direction),
                msize)

\* Neighbors::get_square_neighboring_positions: one Option<TilePos> per
\* direction; the diagonals are None unless include_diagonals
get_square_neighboring_positions(tile_pos, msize, include_diagonals) ==
    [d \in {SquareDirections[i] : i \in 1..8} |->
        IF d \in DiagonalDirections /\ ~include_diagonals
        THEN NoTile
        ELSE as_tile_pos(
                 offset_in_direction(SquareFromTilePos(tile_pos), d), msize)]

-----------------------------------------------------------------------------
(* helpers/hex_grid : AxialPos, the offset coordinates, HexDirection *)

AxialPos(q, r) == [q |-> q, r |-> r]

\* impl Add<AxialPos> for AxialPos
AxialAdd(a, b) == AxialPos(a.q + b.q, a.r + b.r)

\* impl Mul<AxialPos> for u32
AxialScale(k, a) == AxialPos(k * a.q, k * a.r)

\* HEX_OFFSETS: the unit axial offset of HexDirection::Zero .. Five
HEX_OFFSETS ==
    <<AxialPos(1, 0), AxialPos(0, 1), AxialPos(-1, 1),
      AxialPos(-1, 0), AxialPos(0, -1), AxialPos(1, -1)>>

\* AxialPos::from(HexDirection::from(ix)): the direction is taken modulo 6
HexDirectionOffset(ix) == HEX_OFFSETS[(ix % 6) + 1]

\* cube distance between two axial positions
hex_distance(a, b) ==
    LET dq == a.q - b.q
        dr == a.r - b.r
        ds == (a.q + a.r) - (b.q + b.r)
        Abs(v) == IF v < 0 THEN -v ELSE v
    IN (Abs(dq) + Abs(dr) + Abs(ds)) \div 2

HexCoordSystems ==
    {"RowEven", "RowOdd", "ColumnEven", "ColumnOdd", "Row", "Column"}

OffsetSystems == {"RowEven", "RowOdd", "ColumnEven", "ColumnOdd"}

\* y & 1
Parity(v) == v % 2

\* An offset -> axial conversion that shifts by the row itself, not by half
\* of it.
offset_to_axial_unhalved(sys, o) ==
    AxialPos(o.q - o.r, o.r)

\* From<RowOddPos / RowEvenPos / ColOddPos / ColEvenPos> for AxialPos.
\* An offset coordinate is held as [q, r] like the axial one.
offset_to_axial(sys, o) ==
    CASE sys = "RowOdd"     -> AxialPos(o.q - (o.r - Parity(o.r)) \div 2, o.r)
      [] sys = "RowEven"    -> AxialPos(o.q - (o.r + Parity(o.r)) \div 2, o.r)
      [] sys = "ColumnOdd"  -> AxialPos(o.q, o.r - (o.q - Parity(o.q)) \div 2)
      [] sys = "ColumnEven" -> AxialPos(o.q, o.r - (o.q + Parity(o.q)) \div 2)

\* From<AxialPos> for RowOddPos / RowEvenPos / ColOddPos / ColEvenPos
axial_to_offset(sys, a) ==
    CASE sys = "RowOdd"     -> AxialPos(a.q + (a.r - Parity(a.r)) \div 2, a.r)
      [] sys = "RowEven"    -> AxialPos(a.q + (a.r + Parity(a.r)) \div 2, a.r)
      [] sys = "ColumnOdd"  -> AxialPos(a.q, a.r + (a.q - Parity(a.q)) \div 2)
      [] sys = "ColumnEven" -> AxialPos(a.q, a.r + (a.q + Parity(a.q)) \div 2)

\* the native coordinate of an axial position in a HexCoordSystem
axial_to_native(sys, a) ==
    IF sys \in OffsetSystems THEN axial_to_offset(sys, a) ELSE a

\* AxialPos::as_tile_pos_given_coord_system_and_map_size
as_tile_pos_given_coord_system_and_map_size(a, sys, msize) ==
    LET n == axial_to_native(sys, a) IN from_i32_pair(n.q, n.r, msize)

\* AxialPos::from_tile_pos_given_coord_system
from_tile_pos_given_coord_system(tile_pos, sys) ==
    IF sys \in OffsetSystems
    THEN offset_to_axial(sys, AxialPos(tile_pos.x, tile_pos.y))
    ELSE AxialPos(tile_pos.x, tile_pos.y)

\* HexNeighbors::get_neighboring_positions with the tile position read as an
\* axial position whatever the coordinate system
get_neighboring_positions_axial_only(tile_pos, msize, sys) ==
    [d \in 1..6 |->
        LET n == AxialAdd(AxialPos(tile_pos.x, tile_pos.y), HEX_OFFSETS[d])
        IN from_i32_pair(n.q, n.r, msize)]

\* HexNeighbors::<TilePos>::get_neighboring_positions: for each HexDirection
\* Zero .. Five, the tile at the axial position of tile_pos plus the offset of
\* the direction, if it is in the map
get_neighboring_positions(tile_pos, msize, sys) ==
    LET axial_pos == from_tile_pos_given_coord_system(tile_pos, sys)
    IN [d \in 1..6 |->
           as_tile_pos_given_coord_system_and_map_size(
               AxialAdd(axial_pos, HEX_OFFSETS[d]), sys, msize)]

-----------------------------------------------------------------------------
(* src/helpers/filling.rs : generate_hex_ring, generate_hexagon *)

\* A ring whose tangent for corner ix is direction ix + 1 instead of ix + 2.
generate_hex_ring_wrong_tangent(origin, radius) ==
    IF radius = 0
    THEN <<origin>>
    ELSE [n \in 1..(6 * radius) |->
            LET ix == (n - 1) \div radius
                k  == (n - 1) % radius
            IN AxialAdd(AxialAdd(origin, AxialScale(radius, HEX_OFFSETS[ix + 1])),
                        AxialScale(k, HexDirectionOffset(ix + 1)))]

\* A generate_hex_ring whose inner loop runs k over 1..=radius: each edge
\* starts one step after its corner.
generate_hex_ring_late_start(origin, radius) ==
    IF radius = 0
    THEN <<origin>>
    ELSE [n \in 1..(6 * radius) |->
            LET ix == (n - 1) \div radius
                k  == ((n - 1) % radius) + 1
            IN AxialAdd(AxialAdd(origin, AxialScale(radius, HEX_OFFSETS[ix + 1])),
                        AxialScale(k, HexDirectionOffset(ix + 2)))]

\* generate_hex_ring: for each corner origin + radius * direction ix, in order,
\* push corner + k * tangent for k in 0..radius, the tangent being direction
\* ix + 2
generate_hex_ring(origin, radius) ==
    IF radius = 0
    THEN <<origin>>
    ELSE [n \in 1..(6 * radius) |->
            LET ix == (n - 1) \div radius
                k  == (n - 1) % radius
            IN AxialAdd(AxialAdd(origin, AxialScale(radius, HEX_OFFSETS[ix + 1])),
                        AxialScale(k, HexDirectionOffset(ix + 2)))]

\* the rings of radius from..upto, one after the other
RECURSIVE RingsFrom(_, _, _)
RingsFrom(origin, from, upto) ==
    IF from > upto
    THEN <<>>
    ELSE generate_hex_ring(origin, from) \o RingsFrom(origin, from + 1, upto)

\* A hexagon that stops one ring short (0..radius instead of 0..radius + 1).
generate_hexagon_short(origin, radius) == RingsFrom(origin, 0, radius - 1)

\* generate_hexagon: for r in 0..radius + 1 { extend(generate_hex_ring(r)) }
generate_hexagon(origin, radius) == RingsFrom(origin, 0, radius)

-----------------------------------------------------------------------------
(* src/helpers/projection.rs, src/anchor.rs, src/helpers/transform.rs *)

Vec2(x, y) == [x |-> x, y |-> y]

Vec2Add(a, b) == Vec2(a.x + b.x, a.y + b.y)

Vec2Sub(a, b) == Vec2(a.x - b.x, a.y - b.y)

\* Rounding n/d to the nearest integer with a half going down:
\* ceil(n/d - 0.5), for d > 0.
CeilHalfDown(n, d) == -((d - 2 * n) \div (2 * d))

\* f32::floor of n/d + 0.5, for d > 0
FloorHalfUp(n, d) == (2 * n + d) \div (2 * d)

\* f32::round of n/d, for d > 0: half away from zero
RoundHalfAway(n, d) ==
    IF n >= 0 THEN (2 * n + d) \div (2 * d) ELSE -((d - 2 * n) \div (2 * d))

AbsInt(v) == IF v < 0 THEN -v ELSE v

\* FractionalAxialPos::round (cube rounding) of q = qn/d, r = rn/d: round
\* q, r and s = -q-r, then recompute the one with the largest rounding error
cube_round(qn, rn, d) ==
    LET sn == -qn - rn
        q == RoundHalfAway(qn, d)
        r == RoundHalfAway(rn, d)
        s == RoundHalfAway(sn, d)
        q_diff == AbsInt(qn - q * d)
        r_diff == AbsInt(rn - r * d)
        s_diff == AbsInt(sn - s * d)
    IN IF q_diff > r_diff /\ q_diff > s_diff
       THEN AxialPos(-r - s, r)
       ELSE IF r_diff > s_diff
            THEN AxialPos(q, -q - s)
            ELSE AxialPos(q, r)

\* AxialPos::center_in_world_row: grid * (ROW_BASIS * (q, r)),
\* ROW_BASIS = [[1, 1/2], [0, 3/4]]
center_in_world_row(a, grid) ==
    Vec2((grid.x * (2 * a.q + a.r)) \div 2, (grid.y * 3 * a.r) \div 4)

\* AxialPos::center_in_world_col: COL_BASIS = [[3/4, 0], [1/2, 1]]
center_in_world_col(a, grid) ==
    Vec2((grid.x * 3 * a.q) \div 4, (grid.y * (a.q + 2 * a.r)) \div 2)

\* AxialPos::from_world_pos_row: INV_ROW_BASIS * (x/grid.x, y/grid.y),
\* INV_ROW_BASIS = [[1, -2/3], [0, 4/3]], then cube rounding
from_world_pos_row(p, grid) ==
    cube_round(3 * grid.y * p.x - 2 * grid.x * p.y,
               4 * grid.x * p.y,
               3 * grid.x * grid.y)

\* AxialPos::from_world_pos_col: INV_COL_BASIS = [[4/3, 0], [-2/3, 1]]
from_world_pos_col(p, grid) ==
    cube_round(4 * grid.y * p.x,
               3 * grid.x * p.y - 2 * grid.y * p.x,
               3 * grid.x * grid.y)

\* DiamondPos::center_in_world: grid * (DIAMOND_BASIS * (x, y)),
\* DIAMOND_BASIS = [[1/2, 1/2], [-1/2, 1/2]]
diamond_center_in_world(d, grid) ==
    Vec2((grid.x * (d.x + d.y)) \div 2, (grid.y * (d.y - d.x)) \div 2)

\* DiamondPos::from_world_pos: INV_DIAMOND_BASIS * (x/grid.x, y/grid.y),
\* INV_DIAMOND_BASIS = [[1, -1], [1, 1]], each component floor(v + 0.5)
diamond_from_world_pos(p, grid) ==
    SquarePos(FloorHalfUp(p.x * grid.y - p.y * grid.x, grid.x * grid.y),
              FloorHalfUp(p.x * grid.y + p.y * grid.x, grid.x * grid.y))

\* DiamondPos::as_tile_pos
diamond_as_tile_pos(d, msize) == from_i32_pair(d.x, d.y, msize)

\* StaggeredPos::as_tile_pos
staggered_as_tile_pos(st, msize) == from_i32_pair(st.x, st.y, msize)

\* From<StaggeredPos> for DiamondPos / SquarePos: y + x
staggered_to_diamond(st) == SquarePos(st.x, st.y + st.x)

\* From<DiamondPos> for StaggeredPos: y - x
diamond_to_staggered(d) == SquarePos(d.x, d.y - d.x)

HexRowSystems == {"RowEven", "RowOdd", "Row"}

MapTypes ==
    {[kind |-> "Square", sys |-> "Square"]}
    \cup {[kind |-> "Hexagon", sys |-> h] : h \in HexCoordSystems}
    \cup {[kind |-> "Isometric", sys |-> i] : i \in {"Diamond", "Staggered"}}

\* TilePos::center_in_world_unanchored
center_in_world_unanchored(t, grid, mtype) ==
    CASE mtype.kind = "Square" ->
            Vec2(grid.x * t.x, grid.y * t.y)
      [] mtype.kind = "Hexagon" ->
            LET a == from_tile_pos_given_coord_system(t, mtype.sys) IN
            IF mtype.sys \in HexRowSystems
            THEN center_in_world_row(a, grid)
            ELSE center_in_world_col(a, grid)
      [] mtype.kind = "Isometric" ->
            IF mtype.sys = "Diamond"
            THEN diamond_center_in_world(SquarePos(t.x, t.y), grid)
            ELSE diamond_center_in_world(
                     staggered_to_diamond(SquarePos(t.x, t.y)), grid)

\* chunk_index_to_world_space
chunk_index_to_world_space(chunk_index, chunk_size, grid, mtype) ==
    center_in_world_unanchored(
        TilePos(chunk_index.x * chunk_size.x, chunk_index.y * chunk_size.y),
        grid, mtype)

\* A chunk_aabb without the border: the box of the four corners alone.
chunk_aabb_without_border(chunk_size, grid, tsize, mtype) ==
    LET c0 == chunk_index_to_world_space(Vec2(0, 0), chunk_size, grid, mtype)
        c1 == chunk_index_to_world_space(Vec2(1, 0), chunk_size, grid, mtype)
        c2 == chunk_index_to_world_space(Vec2(0, 1), chunk_size, grid, mtype)
        c3 == chunk_index_to_world_space(Vec2(1, 1), chunk_size, grid, mtype)
    IN [min |-> [x |-> Min2(Min2(c0.x, c1.x), Min2(c2.x, c3.x)),
                 y |-> Min2(Min2(c0.y, c1.y), Min2(c2.y, c3.y)),
                 z |-> 0],
        max |-> [x |-> Max2(Max2(c0.x, c1.x), Max2(c2.x, c3.x)),
                 y |-> Max2(Max2(c0.y, c1.y), Max2(c2.y, c3.y)),
                 z |-> 16]]

\* A chunk_aabb that takes the minimum and maximum of c0 and c3 only.
chunk_aabb_two_corners(chunk_size, grid, tsize, mtype) ==
    LET border == Vec2(Max2(grid.x, tsize.x) \div 2, Max2(grid.y, tsize.y) \div 2)
        c0 == chunk_index_to_world_space(Vec2(0, 0), chunk_size, grid, mtype)
        c3 == chunk_index_to_world_space(Vec2(1, 1), chunk_size, grid, mtype)
    IN [min |-> [x |-> Min2(c0.x, c3.x) - border.x,
                 y |-> Min2(c0.y, c3.y) - border.y,
                 z |-> 0],
        max |-> [x |-> Max2(c0.x, c3.x) + border.x,
                 y |-> Max2(c0.y, c3.y) + border.y,
                 z |-> 16]]

\* A chunk_aabb whose border is half the smaller of grid and tile size.
chunk_aabb_min_border(chunk_size, grid, tsize, mtype) ==
    LET border == Vec2(Min2(grid.x, tsize.x) \div 2, Min2(grid.y, tsize.y) \div 2)
        c0 == chunk_index_to_world_space(Vec2(0, 0), chunk_size, grid, mtype)
        c1 == chunk_index_to_world_space(Vec2(1, 0), chunk_size, grid, mtype)
        c2 == chunk_index_to_world_space(Vec2(0, 1), chunk_size, grid, mtype)
        c3 == chunk_index_to_world_space(Vec2(1, 1), chunk_size, grid, mtype)
    IN [min |-> [x |-> Min2(Min2(c0.x, c1.x), Min2(c2.x, c3.x)) - border.x,
                 y |-> Min2(Min2(c0.y, c1.y), Min2(c2.y, c3.y)) - border.y,
                 z |-> 0],
        max |-> [x |-> Max2(Max2(c0.x, c1.x), Max2(c2.x, c3.x)) + border.x,
                 y |-> Max2(Max2(c0.y, c1.y), Max2(c2.y, c3.y)) + border.y,
                 z |-> 16]]

\* chunk_aabb: min and max of the Aabb (z is 0 and 1.0)
chunk_aabb(chunk_size, grid, tsize, mtype) ==
    LET border == Vec2(Max2(grid.x, tsize.x) \div 2, Max2(grid.y, tsize.y) \div 2)
        c0 == chunk_index_to_world_space(Vec2(0, 0), chunk_size, grid, mtype)
        c1 == chunk_index_to_world_space(Vec2(1, 0), chunk_size, grid, mtype)
        c2 == chunk_index_to_world_space(Vec2(0, 1), chunk_size, grid, mtype)
        c3 == chunk_index_to_world_space(Vec2(1, 1), chunk_size, grid, mtype)
    IN [min |-> [x |-> Min2(Min2(c0.x, c1.x), Min2(c2.x, c3.x)) - border.x,
                 y |-> Min2(Min2(c0.y, c1.y), Min2(c2.y, c3.y)) - border.y,
                 z |-> 0],
        max |-> [x |-> Max2(Max2(c0.x, c1.x), Max2(c2.x, c3.x)) + border.x,
                 y |-> Max2(Max2(c0.y, c1.y), Max2(c2.y, c3.y)) + border.y,
                 z |-> 16]]

\* TilemapAnchor: a named preset, or Custom(v) with v held in quarters
\* (v4 = 4 * v)
NamedAnchor(kind) == [kind |-> kind, v4 |-> Vec2(0, 0)]

CustomAnchor(x4, y4) == [kind |-> "Custom", v4 |-> Vec2(x4, y4)]

AnchorPresets ==
    {"None", "Center", "BottomLeft", "BottomCenter", "BottomRight",
     "CenterLeft", "CenterRight", "TopLeft", "TopCenter", "TopRight"}

\* An as_offset whose Custom arm forgets to subtract min.
as_offset_custom_without_min(a, msize, grid, tsize, mtype) ==
    LET aabb == chunk_aabb(Vec2(msize.x - 1, msize.y - 1), grid, tsize, mtype)
        min == aabb.min
        max == aabb.max
    IN CASE a.kind = "None" -> Vec2(0, 0)
         [] a.kind = "TopLeft" -> Vec2(-min.x, -max.y)
         [] a.kind = "TopRight" -> Vec2(-max.x, -max.y)
         [] a.kind = "TopCenter" -> Vec2((-(max.x + min.x)) \div 2, -max.y)
         [] a.kind = "CenterRight" -> Vec2(-max.x, (-(max.y + min.y)) \div 2)
         [] a.kind = "CenterLeft" -> Vec2(-min.x, (-(max.y + min.y)) \div 2)
         [] a.kind = "BottomLeft" -> Vec2(-min.x, -min.y)
         [] a.kind = "BottomRight" -> Vec2(-max.x, -min.y)
         [] a.kind = "BottomCenter" -> Vec2((-(max.x + min.x)) \div 2, -min.y)
         [] a.kind = "Center" ->
                Vec2((-(max.x + min.x)) \div 2, (-(max.y + min.y)) \div 2)
         [] a.kind = "Custom" ->
                Vec2(((-2 - a.v4.x) * (max.x - min.x)) \div 4,
                     ((-2 - a.v4.y) * (max.y - min.y)) \div 4)

\* An as_offset whose BottomLeft is half the grid size, whatever the tile size
\* and the layout.
as_offset_half_grid(a, msize, grid, tsize, mtype) ==
    IF a.kind = "BottomLeft"
    THEN Vec2(grid.x \div 2, grid.y \div 2)
    ELSE Vec2(0, 0)

\* TilemapAnchor::as_offset
as_offset(a, msize, grid, tsize, mtype) ==
    LET aabb == chunk_aabb(Vec2(msize.x - 1, msize.y - 1), grid, tsize, mtype)
        min == aabb.min
        max == aabb.max
    IN CASE a.kind = "None" -> Vec2(0, 0)
         [] a.kind = "TopLeft" -> Vec2(-min.x, -max.y)
         [] a.kind = "TopRight" -> Vec2(-max.x, -max.y)
         [] a.kind = "TopCenter" -> Vec2((-(max.x + min.x)) \div 2, -max.y)
         [] a.kind = "CenterRight" -> Vec2(-max.x, (-(max.y + min.y)) \div 2)
         [] a.kind = "CenterLeft" -> Vec2(-min.x, (-(max.y + min.y)) \div 2)
         [] a.kind = "BottomLeft" -> Vec2(-min.x, -min.y)
         [] a.kind = "BottomRight" -> Vec2(-max.x, -min.y)
         [] a.kind = "BottomCenter" -> Vec2((-(max.x + min.x)) \div 2, -min.y)
         [] a.kind = "Center" ->
                Vec2((-(max.x + min.x)) \div 2, (-(max.y + min.y)) \div 2)
         [] a.kind = "Custom" ->
                Vec2(((-2 - a.v4.x) * (max.x - min.x)) \div 4 - min.x,
                     ((-2 - a.v4.y) * (max.y - min.y)) \div 4 - min.y)

\* A center_in_world that subtracts the anchor offset instead of adding it.
center_in_world_subtracting_offset(t, msize, grid, tsize, mtype, a) ==
    Vec2Sub(center_in_world_unanchored(t, grid, mtype),
            as_offset(a, msize, grid, tsize, mtype))

\* TilePos::center_in_world
center_in_world(t, msize, grid, tsize, mtype, a) ==
    Vec2Add(as_offset(a, msize, grid, tsize, mtype),
            center_in_world_unanchored(t, grid, mtype))

\* the native coordinate from_world_pos recovers from the unanchored position
\* p, before it is converted into a TilePos: the match arms of from_world_pos
native_from_world(p, grid, mtype) ==
    CASE mtype.kind = "Square" ->
            SquarePos(FloorHalfUp(p.x, grid.x), FloorHalfUp(p.y, grid.y))
      [] mtype.kind = "Hexagon" ->
            LET a == IF mtype.sys \in HexRowSystems
                     THEN from_world_pos_row(p, grid)
                     ELSE from_world_pos_col(p, grid)
                n == axial_to_native(mtype.sys, a)
            IN SquarePos(n.q, n.r)
      [] mtype.kind = "Isometric" ->
            IF mtype.sys = "Diamond"
            THEN diamond_from_world_pos(p, grid)
            ELSE diamond_to_staggered(diamond_from_world_pos(p, grid))

\* A from_world_pos that does not subtract the anchor offset.
from_world_pos_ignoring_anchor(world_pos, msize, grid, tsize, mtype, a) ==
    LET n == native_from_world(world_pos, grid, mtype)
    IN from_i32_pair(n.x, n.y, msize)

\* TilePos::from_world_pos
from_world_pos(world_pos, msize, grid, tsize, mtype, a) ==
    LET p == Vec2Sub(world_pos, as_offset(a, msize, grid, tsize, mtype))
        n == native_from_world(p, grid, mtype)
    IN from_i32_pair(n.x, n.y, msize)

-----------------------------------------------------------------------------
(* src/helpers/geometry.rs : get_tilemap_center_transform *)

\* Transform::from_xyz(-diff.x / 2.0, -diff.y / 2.0, z): its translation
centering_translation(diff, z) ==
    [x |-> (-diff.x) \div 2, y |-> (-diff.y) \div 2, z |-> z]

\* get_tilemap_center_transform with high taken at TilePos(map_size.x,
\* map_size.y)
get_tilemap_center_transform_full_extent(msize, grid, mtype, z) ==
    LET tsize == Vec2(grid.x, grid.y)
        low == center_in_world(TilePos(0, 0), msize, grid, tsize, mtype,
                               NamedAnchor("None"))
        high == center_in_world(TilePos(msize.x, msize.y), msize, grid,
                                tsize, mtype, NamedAnchor("None"))
    IN centering_translation(Vec2Sub(high, low), z)

\* get_tilemap_center_transform: the translation of the Transform returned,
\* Transform::from_xyz(-diff.x / 2.0, -diff.y / 2.0, z)
get_tilemap_center_transform(msize, grid, mtype, z) ==
    LET tsize == Vec2(grid.x, grid.y)
        low == center_in_world(TilePos(0, 0), msize, grid, tsize, mtype,
                               NamedAnchor("None"))
        high == center_in_world(TilePos(msize.x - 1, msize.y - 1), msize,
                                grid, tsize, mtype, NamedAnchor("None"))
    IN centering_translation(Vec2Sub(high, low), z)

-----------------------------------------------------------------------------
(* The projection functions applied to inputs drawn from bounded sets *)

\* the map extents drawn
MapSizes == [x : 1..MaxMapDim, y : 1..MaxMapDim]

\* grid sizes 1.0 x 1.0 and 2.0 x 1.0
GridSizes == {Vec2(16, 16), Vec2(32, 16)}

\* tile sizes 1.0 x 1.0 and 3.0 x 2.0
TileSizes == {Vec2(16, 16), Vec2(48, 32)}

\* every preset, Custom(0.25, -0.5) and Custom(-0.75, 1.0)
Anchors ==
    {NamedAnchor(k) : k \in AnchorPresets}
    \cup {CustomAnchor(1, -2), CustomAnchor(-3, 4)}

\* from_world_pos is asked about the center of a tile moved by one of these
Nudges ==
    {Vec2(0, 0), Vec2(8, 0), Vec2(0, 8), Vec2(-8, -8), Vec2(16, 16),
     Vec2(-16, 0), Vec2(0, -16), Vec2(32, 32), Vec2(-32, -32)}

ProjIdle ==
    /\ map_size = Vec2(1, 1)
    /\ grid_size = Vec2(16, 16)
    /\ tile_size = Vec2(16, 16)
    /\ map_type = [kind |-> "Square", sys |-> "Square"]
    /\ anchor = NamedAnchor("None")
    /\ pcall = "none"
    /\ tile = TilePos(0, 0)
    /\ world = Vec2(0, 0)
    /\ recon = NoTile
    /\ offset = Vec2(0, 0)

ProjInit ==
    /\ map_size \in MapSizes
    /\ grid_size \in GridSizes
    /\ tile_size \in TileSizes
    /\ map_type \in MapTypes
    /\ anchor \in Anchors
    /\ pcall = "none"
    /\ tile = TilePos(0, 0)
    /\ world = Vec2(0, 0)
    /\ recon = NoTile
    /\ offset = Vec2(0, 0)

CallAsOffset ==
    /\ pcall = "none"
    /\ pcall' = "as_offset"
    /\ offset' = as_offset(anchor, map_size, grid_size, tile_size, map_type)
    /\ UNCHANGED <<map_size, grid_size, tile_size, map_type, anchor,
                   tile, world, recon>>
    /\ UNCHANGED nonProjVars

CallCenterInWorld ==
    /\ pcall = "none"
    /\ \E t \in {c \in [x : 0..MaxMapDim, y : 0..MaxMapDim] :
                    within_map_bounds(c, map_size)} :
        /\ tile' = t
        /\ world' = center_in_world(t, map_size, grid_size, tile_size,
                                    map_type, anchor)
    /\ pcall' = "center_in_world"
    /\ UNCHANGED <<map_size, grid_size, tile_size, map_type, anchor,
                   recon, offset>>
    /\ UNCHANGED nonProjVars

\* from_world_pos at, or near, the center just computed
CallFromWorldPos ==
    /\ pcall = "center_in_world"
    /\ \E d \in Nudges :
        /\ world' = Vec2Add(world, d)
        /\ recon' = from_world_pos(world', map_size, grid_size, tile_size,
                                   map_type, anchor)
    /\ pcall' = "from_world_pos"
    /\ UNCHANGED <<map_size, grid_size, tile_size, map_type, anchor,
                   tile, offset>>
    /\ UNCHANGED nonProjVars

\* the z passed to get_tilemap_center_transform: 0.0, 1.0 or -2.0
Depths == {0, 16, -32}

\* get_tilemap_center_transform; world holds the point (0, 0, z) the center
\* of the map is to be placed at, offset the translation returned
CallGetTilemapCenterTransform ==
    /\ pcall = "none"
    /\ \E z \in Depths :
        /\ world' = [x |-> 0, y |-> 0, z |-> z]
        /\ offset' = get_tilemap_center_transform(map_size, grid_size,
                                                  map_type, z)
    /\ pcall' = "get_tilemap_center_transform"
    /\ UNCHANGED <<map_size, grid_size, tile_size, map_type, anchor,
                   tile, recon>>
    /\ UNCHANGED nonProjVars

ProjNext ==
    \/ CallAsOffset
    \/ CallCenterInWorld
    \/ CallFromWorldPos
    \/ CallGetTilemapCenterTransform

-----------------------------------------------------------------------------
(* i32 arithmetic, and the conversions between the square-like positions   *)
(* (src/helpers/square_grid/mod.rs, helpers/square_grid/staggered.rs)      *)

\* i32::MIN
I32Min == -I32Max - 1

\* a + b leaves the range of i32
add_overflows(a, b) ==
    \/ b > 0 /\ a > I32Max - b
    \/ b < 0 /\ a < I32Min - b

\* a + b modulo 2^32, in the range of i32
wrapping_add(a, b) ==
    IF b > 0 /\ a > I32Max - b
    THEN (a - I32Max - 1) + (b - I32Max - 1)
    ELSE IF b < 0 /\ a < I32Min - b
         THEN (a + I32Max + 1) + (b + I32Max + 1)
         ELSE a + b

\* a - b leaves the range of i32
sub_overflows(a, b) ==
    \/ b < 0 /\ a > I32Max + b
    \/ b > 0 /\ a < I32Min + b

\* a - b modulo 2^32, in the range of i32
wrapping_sub(a, b) ==
    IF b < 0 /\ a > I32Max + b
    THEN (a - I32Max - 1) - (b + I32Max + 1)
    ELSE IF b > 0 /\ a < I32Min + b
         THEN (a + I32Max + 1) - (b - I32Max - 1)
         ELSE a - b

\* SquarePos::from(DiamondPos { x, y })
SquareFromDiamond(diamond_pos) == SquarePos(diamond_pos.x, diamond_pos.y)

\* SquarePos::from(StaggeredPos { x, y }) with the shear left out
SquareFromStaggered_unsheared(staggered_pos, overflow_checks) ==
    [panic |-> FALSE, val |-> SquarePos(staggered_pos.x, staggered_pos.y)]

\* SquarePos::from(StaggeredPos { x, y }) = SquarePos { x, y: y + x }.  The
\* sum is an i32 sum: when it overflows, a build with overflow checks panics
\* and a build without them wraps.
SquareFromStaggered(staggered_pos, overflow_checks) ==
    [panic |-> overflow_checks
                 /\ add_overflows(staggered_pos.y, staggered_pos.x),
     val   |-> SquarePos(staggered_pos.x,
                         wrapping_add(staggered_pos.y, staggered_pos.x))]

\* StaggeredPos::from(SquarePos { x, y }) = StaggeredPos { x, y: y - x }
StaggeredFromSquare(square_pos, overflow_checks) ==
    [panic |-> overflow_checks /\ sub_overflows(square_pos.y, square_pos.x),
     val   |-> SquarePos(square_pos.x,
                         wrapping_sub(square_pos.y, square_pos.x))]

\* TilePos::diamond_offset: DiamondPos::from(self).offset(direction)
\* .as_tile_pos(map_size), where DiamondPos::offset steps the SquarePos of the
\* position and converts back
diamond_offset(tile_pos, direction, msize) ==
    diamond_as_tile_pos(
        offset_in_direction(
            SquareFromDiamond(SquarePos(tile_pos.x, tile_pos.y)), direction),
        msize)

\* TilePos::staggered_offset: StaggeredPos::from(self).offset(direction)
\* .as_tile_pos(map_size), where StaggeredPos::offset steps the SquarePos of
\* the position and converts back.  The sums of a position of the map and a
\* unit step are far from the ends of i32.
staggered_offset(tile_pos, direction, msize) ==
    LET square_pos == SquareFromStaggered(
                          SquarePos(tile_pos.x, tile_pos.y), TRUE).val
        stepped == offset_in_direction(square_pos, direction)
    IN staggered_as_tile_pos(StaggeredFromSquare(stepped, TRUE).val, msize)

\* the offset function of a square-like layout
layout_offset(layout, tile_pos, direction, msize) ==
    CASE layout = "Square"    -> square_offset(tile_pos, direction, msize)
      [] layout = "Diamond"   -> diamond_offset(tile_pos, direction, msize)
      [] layout = "Staggered" -> staggered_offset(tile_pos, direction, msize)

\* the direction pointing the other way: four places on in SquareDirection
opposite(direction) == SquareDirections[((DirectionIndex(direction) + 3) % 8) + 1]

-----------------------------------------------------------------------------
(* The grid functions applied to inputs drawn from bounded sets *)

Coords == [x : -MaxCoord..MaxCoord, y : -MaxCoord..MaxCoord]

NoCall == [fn |-> "none"]

GridIdle ==
    /\ coord = [x |-> 0, y |-> 0]
    /\ extent = [x |-> 1, y |-> 1]
    /\ call = NoCall
    /\ result = <<>>

GridInit ==
    /\ coord \in Coords
    /\ extent \in MapSizes
    /\ call = NoCall
    /\ result = <<>>

\* coord read as an in-bounds TilePos of the map
CoordIsTile == coord.x >= 0 /\ coord.y >= 0 /\ within_map_bounds(coord, extent)

CoordAsAxial == AxialPos(coord.x, coord.y)

CallSquareNeighbors ==
    /\ call = NoCall
    /\ CoordIsTile
    /\ \E include_diagonals \in BOOLEAN :
        /\ call' = [fn |-> "get_square_neighboring_positions",
                    include_diagonals |-> include_diagonals]
        /\ result' = get_square_neighboring_positions(
                         coord, extent, include_diagonals)
    /\ UNCHANGED <<coord, extent>>
    /\ UNCHANGED nonGridVars

CallSquareOffset ==
    /\ call = NoCall
    /\ CoordIsTile
    /\ \E i \in 1..8 :
        /\ call' = [fn |-> "square_offset", direction |-> SquareDirections[i]]
        /\ result' = square_offset(coord, SquareDirections[i], extent)
    /\ UNCHANGED <<coord, extent>>
    /\ UNCHANGED nonGridVars

\* offset -> axial -> offset
CallOffsetAxialOffset ==
    /\ call = NoCall
    /\ \E sys \in OffsetSystems :
        LET a == offset_to_axial(sys, CoordAsAxial) IN
        /\ call' = [fn |-> "offset_axial_offset", sys |-> sys]
        /\ result' = [mid |-> a, back |-> axial_to_offset(sys, a)]
    /\ UNCHANGED <<coord, extent>>
    /\ UNCHANGED nonGridVars

\* axial -> offset -> axial
CallAxialOffsetAxial ==
    /\ call = NoCall
    /\ \E sys \in OffsetSystems :
        LET o == axial_to_offset(sys, CoordAsAxial) IN
        /\ call' = [fn |-> "axial_offset_axial", sys |-> sys]
        /\ result' = [mid |-> o, back |-> offset_to_axial(sys, o)]
    /\ UNCHANGED <<coord, extent>>
    /\ UNCHANGED nonGridVars

\* axial -> TilePos in the map -> axial, as in tilepos_coord_system_helpers
CallAxialTileAxial ==
    /\ call = NoCall
    /\ \E sys \in HexCoordSystems :
        LET t == as_tile_pos_given_coord_system_and_map_size(
                     CoordAsAxial, sys, extent) IN
        /\ call' = [fn |-> "axial_tile_axial", sys |-> sys]
        /\ result' = [tile |-> t,
                      back |-> IF t = NoTile
                               THEN <<>>
                               ELSE <<from_tile_pos_given_coord_system(
                                          t[1], sys)>>]
    /\ UNCHANGED <<coord, extent>>
    /\ UNCHANGED nonGridVars

\* tile sizes passed to chunk_aabb: those above and 2.0 x 2.0
ChunkTileSizes == TileSizes \cup {Vec2(32, 32)}

\* chunk_aabb of a chunk of coord.x by coord.y tiles
CallChunkAabb ==
    /\ call = NoCall
    /\ coord.x >= 0
    /\ coord.y >= 0
    /\ \E grid \in GridSizes, tsize \in ChunkTileSizes, mtype \in MapTypes :
        /\ call' = [fn |-> "chunk_aabb", grid_size |-> grid,
                    tile_size |-> tsize, map_type |-> mtype]
        /\ result' = chunk_aabb(Vec2(coord.x, coord.y), grid, tsize, mtype)
    /\ UNCHANGED <<coord, extent>>
    /\ UNCHANGED nonGridVars

\* from_i32_pair and the as_tile_pos of the three square-like positions
CallFromI32Pair ==
    /\ call = NoCall
    /\ call' = [fn |-> "from_i32_pair"]
    /\ result' = [direct    |-> from_i32_pair(coord.x, coord.y, extent),
                  square    |-> as_tile_pos(SquarePos(coord.x, coord.y), extent),
                  diamond   |-> diamond_as_tile_pos(
                                    SquarePos(coord.x, coord.y), extent),
                  staggered |-> staggered_as_tile_pos(
                                    SquarePos(coord.x, coord.y), extent)]
    /\ UNCHANGED <<coord, extent>>
    /\ UNCHANGED nonGridVars

\* i32 values at and next to the ends of the range
Extremes == {I32Min, I32Min + 1, I32Max - 1, I32Max}

\* positions converted: the small ones, and those with an extreme component
ShearInputs ==
    Coords \cup {c \in [x : Extremes \cup {-1, 0, 1},
                        y : Extremes \cup {-1, 0, 1}] :
                    c.x \in Extremes \/ c.y \in Extremes}

\* a position read as a StaggeredPos, a DiamondPos and (when it has no
\* negative component) a TilePos, converted to SquarePos; the staggered one
\* converted back
CallStaggeredSquare ==
    /\ call = NoCall
    /\ \E p \in ShearInputs, overflow_checks \in BOOLEAN :
        LET sq == SquareFromStaggered(p, overflow_checks) IN
        /\ call' = [fn |-> "staggered_square", p |-> p,
                    overflow_checks |-> overflow_checks]
        /\ result' = [square  |-> sq,
                      back    |-> IF sq.panic
                                  THEN sq
                                  ELSE StaggeredFromSquare(sq.val,
                                                           overflow_checks),
                      diamond |-> SquareFromDiamond(p),
                      tile    |-> IF p.x >= 0 /\ p.y >= 0
                                  THEN <<SquareFromTilePos(p)>>
                                  ELSE <<>>]
    /\ UNCHANGED <<coord, extent>>
    /\ UNCHANGED nonGridVars

CallHexNeighbors ==
    /\ call = NoCall
    /\ CoordIsTile
    /\ \E sys \in HexCoordSystems :
        /\ call' = [fn |-> "get_neighboring_positions", sys |-> sys]
        /\ result' = get_neighboring_positions(coord, extent, sys)
    /\ UNCHANGED <<coord, extent>>
    /\ UNCHANGED nonGridVars

\* to_index and within_map_bounds of a position with no negative component,
\* in the map or not
CallToIndex ==
    /\ call = NoCall
    /\ coord.x >= 0
    /\ coord.y >= 0
    /\ call' = [fn |-> "to_index"]
    /\ result' = [index  |-> to_index(coord, extent),
                  within |-> within_map_bounds(coord, extent)]
    /\ UNCHANGED <<coord, extent>>
    /\ UNCHANGED nonGridVars

\* a step in a direction and, when it stays in the map, a step in the
\* opposite direction from where it led, as in square_offset_roundtrip
CallOffsetAndBack ==
    /\ call = NoCall
    /\ CoordIsTile
    /\ \E i \in 1..8, layout \in {"Square", "Diamond", "Staggered"} :
        LET direction == SquareDirections[i]
            there == layout_offset(layout, coord, direction, extent)
        IN /\ call' = [fn |-> "offset_and_back", layout |-> layout,
                       direction |-> direction]
           /\ result' = [there |-> there,
                         back  |-> IF there = NoTile
                                   THEN NoTile
                                   ELSE layout_offset(layout, there[1],
                                                      opposite(direction),
                                                      extent)]
    /\ UNCHANGED <<coord, extent>>
    /\ UNCHANGED nonGridVars

CallGenerateHexRing ==
    /\ call = NoCall
    /\ \E radius \in 0..MaxRadius :
        /\ call' = [fn |-> "generate_hex_ring", radius |-> radius]
        /\ result' = generate_hex_ring(CoordAsAxial, radius)
    /\ UNCHANGED <<coord, extent>>
    /\ UNCHANGED nonGridVars

CallGenerateHexagon ==
    /\ call = NoCall
    /\ \E radius \in 0..MaxRadius :
        /\ call' = [fn |-> "generate_hexagon", radius |-> radius]
        /\ result' = generate_hexagon(CoordAsAxial, radius)
    /\ UNCHANGED <<coord, extent>>
    /\ UNCHANGED nonGridVars

GridNext ==
    \/ CallSquareNeighbors
    \/ CallSquareOffset
    \/ CallOffsetAxialOffset
    \/ CallAxialOffsetAxial
    \/ CallAxialTileAxial
    \/ CallGenerateHexRing
    \/ CallGenerateHexagon
    \/ CallFromI32Pair
    \/ CallStaggeredSquare
    \/ CallHexNeighbors
    \/ CallToIndex
    \/ CallOffsetAndBack
    \/ CallChunkAabb

-----------------------------------------------------------------------------
(* src/helpers/filling.rs : fill_tilemap, fill_tilemap_hexagon *)

\* `v as u32` of an i32.  A negative v wraps to 2^32 + v; the integers here
\* stop at 2^31 - 1, so that value is held as 2^31 + v, which like it is
\* above every extent and keeps the order of the wrapped values.
as_u32(v) == IF v >= 0 THEN v ELSE I32Max + (v + 1)

\* AxialPos::as_tile_pos_given_coord_system: the native coordinate cast to
\* u32, without a bounds check
as_tile_pos_given_coord_system(a, sys) ==
    LET n == axial_to_native(sys, a) IN TilePos(as_u32(n.q), as_u32(n.r))

\* parent.spawn(TileBundle { position, .. }).id(): the next entity id, and
\* the world with the new entity and its TilePos component
spawn(ents, position) ==
    [id |-> Len(ents) + 1, entities |-> Append(ents, <<position>>)]

\* The loop of the fill functions over the positions, in order: spawn a tile
\* entity for the position, then set (or checked_set) it.  A panic of set
\* ends the call, after the spawn of that iteration.  The k-th iteration
\* spawns entity Len(ents) + k; a cell ends up with the entity of the last
\* iteration that stored into it.
FillEach(positions, ts, sz, ents, checked) ==
    LET Stores(k) == checked => within_map_bounds(positions[k], sz)
        Panics(k) == ~checked /\ IndexPanics(ts, to_index(positions[k], sz))
        panicking == {k \in 1..Len(positions) : Panics(k)}
        stop == IF panicking = {}
                THEN Len(positions) + 1
                ELSE CHOOSE k \in panicking : \A j \in panicking : k <= j
        spawned == IF panicking = {} THEN Len(positions) ELSE stop
        StoredBy(i) == {k \in 1..(stop - 1) :
                           Stores(k) /\ to_index(positions[k], sz) + 1 = i}
        Last(ks) == CHOOSE k \in ks : \A j \in ks : k >= j
    IN [panic |-> panicking # {},
        tiles |-> [i \in 1..Len(ts) |->
                      IF StoredBy(i) = {}
                      THEN ts[i]
                      ELSE spawn(ents, positions[Last(StoredBy(i))]).id
                               + Last(StoredBy(i)) - 1],
        entities |-> ents \o [k \in 1..spawned |-> <<positions[k]>>]]

\* for x in 0..size.x { for y in 0..size.y { TilePos { x, y } } }
ColumnMajorPositions(fill_size) ==
    [k \in 1..(fill_size.x * fill_size.y) |->
        TilePos((k - 1) \div fill_size.y, (k - 1) % fill_size.y)]

\* A fill_tilemap that stops one row short of size.y.
fill_tilemap_short(fill_size, ts, sz, ents) ==
    FillEach(ColumnMajorPositions([x |-> fill_size.x, y |-> fill_size.y - 1]),
             ts, sz, ents, FALSE)

\* fill_tilemap(texture_index, size, tilemap_id, commands, tile_storage)
fill_tilemap(fill_size, ts, sz, ents) ==
    FillEach(ColumnMajorPositions(fill_size), ts, sz, ents, FALSE)

\* the tile_positions of fill_tilemap_hexagon
hexagon_tile_positions(origin, radius, sys) ==
    LET hexagon == generate_hexagon(
                       from_tile_pos_given_coord_system(origin, sys), radius)
    IN [k \in 1..Len(hexagon) |->
            as_tile_pos_given_coord_system(hexagon[k], sys)]

\* fill_tilemap_hexagon(texture_index, origin, radius, hex_coord_system,
\* tilemap_id, commands, tile_storage)
fill_tilemap_hexagon(origin, radius, sys, ts, sz, ents) ==
    FillEach(hexagon_tile_positions(origin, radius, sys), ts, sz, ents, TRUE)

\* for x in 0..size.x { for y in 0..size.y {
\*     TilePos { x: origin.x + x, y: origin.y + y } } }
RectPositions(origin, fill_size) ==
    [k \in 1..(fill_size.x * fill_size.y) |->
        TilePos(origin.x + ((k - 1) \div fill_size.y),
                origin.y + ((k - 1) % fill_size.y))]

\* fill_tilemap_rect(texture_index, origin, size, tilemap_id, commands,
\* tile_storage)
fill_tilemap_rect(origin, fill_size, ts, sz, ents) ==
    FillEach(RectPositions(origin, fill_size), ts, sz, ents, FALSE)

\* fill_tilemap_rect_color(texture_index, origin, size, color, tilemap_id,
\* commands, tile_storage): the same loop; the color goes into the TileBundle
fill_tilemap_rect_color(origin, fill_size, ts, sz, ents) ==
    FillEach(RectPositions(origin, fill_size), ts, sz, ents, FALSE)

-----------------------------------------------------------------------------
(* The fill functions applied to a storage and a world *)

\* the world before a fill: the tilemap entity (id 1), which has no TilePos
TilemapOnly == <<NoTile>>

FillIdle ==
    /\ fsize = [x |-> 1, y |-> 1]
    /\ ftiles = empty(fsize)
    /\ world_entities = TilemapOnly
    /\ fcall = NoCall
    /\ fpanicked = FALSE

\* a storage that is empty, or whose every cell holds entity 1
FillInit ==
    /\ fsize \in MapSizes
    /\ ftiles \in {empty(fsize), [i \in 1..(fsize.x * fsize.y) |-> 1]}
    /\ world_entities = TilemapOnly
    /\ fcall = NoCall
    /\ fpanicked = FALSE

CallFillTilemap ==
    /\ fcall = NoCall
    /\ \E fill_size \in MapSizes :
        LET r == fill_tilemap(fill_size, ftiles, fsize, world_entities) IN
        /\ fcall' = [fn |-> "fill_tilemap", size |-> fill_size]
        /\ ftiles' = r.tiles
        /\ world_entities' = r.entities
        /\ fpanicked' = r.panic
    /\ UNCHANGED fsize
    /\ UNCHANGED nonFillVars

CallFillTilemapHexagon ==
    /\ fcall = NoCall
    /\ \E origin \in [x : 0..MaxMapDim, y : 0..MaxMapDim],
          radius \in 0..MaxRadius, sys \in HexCoordSystems :
        LET r == fill_tilemap_hexagon(origin, radius, sys, ftiles, fsize,
                                      world_entities) IN
        /\ fcall' = [fn |-> "fill_tilemap_hexagon", origin |-> origin,
                     radius |-> radius, sys |-> sys]
        /\ ftiles' = r.tiles
        /\ world_entities' = r.entities
        /\ fpanicked' = r.panic
    /\ UNCHANGED fsize
    /\ UNCHANGED nonFillVars

CallFillTilemapRect ==
    /\ fcall = NoCall
    /\ \E origin \in [x : 0..MaxMapDim, y : 0..MaxMapDim],
          fill_size \in MapSizes :
        LET r == fill_tilemap_rect(origin, fill_size, ftiles, fsize,
                                   world_entities) IN
        /\ fcall' = [fn |-> "fill_tilemap_rect", origin |-> origin,
                     size |-> fill_size]
        /\ ftiles' = r.tiles
        /\ world_entities' = r.entities
        /\ fpanicked' = r.panic
    /\ UNCHANGED fsize
    /\ UNCHANGED nonFillVars

CallFillTilemapRectColor ==
    /\ fcall = NoCall
    /\ \E origin \in [x : 0..MaxMapDim, y : 0..MaxMapDim],
          fill_size \in MapSizes :
        LET r == fill_tilemap_rect_color(origin, fill_size, ftiles, fsize,
                                         world_entities) IN
        /\ fcall' = [fn |-> "fill_tilemap_rect_color", origin |-> origin,
                     size |-> fill_size]
        /\ ftiles' = r.tiles
        /\ world_entities' = r.entities
        /\ fpanicked' = r.panic
    /\ UNCHANGED fsize
    /\ UNCHANGED nonFillVars

FillNext ==
    \/ CallFillTilemap
    \/ CallFillTilemapHexagon
    \/ CallFillTilemapRect
    \/ CallFillTilemapRectColor

-----------------------------------------------------------------------------
(* Specifications *)

\* the tile storage under arbitrary calls
Init == StorageInit /\ GridIdle /\ ProjIdle /\ FillIdle

Next == StorageNext

Spec == Init /\ [][Next]_vars

StorageIdle ==
    /\ size = [x |-> 1, y |-> 1]
    /\ tiles = empty(size)
    /\ op = "empty"
    /\ pos = TilePos(0, 0)
    /\ ret = None
    /\ panicked = FALSE
    /\ drainIx = -1
    /\ shadow = EmptyShadow(size)
    /\ clean = TRUE
    /\ drainStart = <<>>
    /\ yielded = <<>>
    /\ mapped = <<>>

\* the integer grid functions, each applied once to every input
GridSpecInit == GridInit /\ StorageIdle /\ ProjIdle /\ FillIdle

SpecGrid == GridSpecInit /\ [][GridNext]_vars

\* the projection functions, each applied to every input
ProjSpecInit == ProjInit /\ StorageIdle /\ GridIdle /\ FillIdle

SpecProj == ProjSpecInit /\ [][ProjNext]_vars

\* the fill functions, each applied once to every input
FillSpecInit == FillInit /\ StorageIdle /\ GridIdle /\ ProjIdle

SpecFill == FillSpecInit /\ [][FillNext]_vars

-----------------------------------------------------------------------------
(* Claims about the projection functions, checked under SpecProj *)

\* C2: for every layout, anchor, map extent and in-bounds TilePos c,
\* from_world_pos(c.center_in_world(..), same arguments) = Some(c).
C2_CenterRoundTrips ==
    (pcall = "from_world_pos"
     /\ world = center_in_world(tile, map_size, grid_size, tile_size,
                                map_type, anchor))
        => recon = SomeTile(tile.x, tile.y)

\* C2 witness: the center of tile (1,2) of a RowOdd hex map anchored TopRight,
\* with tiles larger than the grid, was projected and recovered.
C2_Witness ==
    /\ pcall = "from_world_pos"
    /\ map_type = [kind |-> "Hexagon", sys |-> "RowOdd"]
    /\ anchor = NamedAnchor("TopRight")
    /\ tile_size # grid_size
    /\ tile = TilePos(1, 2)
    /\ world = center_in_world(tile, map_size, grid_size, tile_size,
                               map_type, anchor)
    /\ world # center_in_world_unanchored(tile, grid_size, map_type)
    /\ recon = SomeTile(1, 2)

\* the native coordinate from_world_pos recovered for the position it was given
RecoveredNative ==
    native_from_world(
        Vec2Sub(world, as_offset(anchor, map_size, grid_size, tile_size,
                                 map_type)),
        grid_size, map_type)

\* C3: from_world_pos never returns a coordinate outside the map, and returns
\* None whenever the recovered native coordinate has a negative component or
\* one >= the extent.
C3_FromWorldPosStaysInMap ==
    pcall = "from_world_pos" =>
        /\ recon # NoTile =>
              /\ 0 <= recon[1].x /\ recon[1].x < map_size.x
              /\ 0 <= recon[1].y /\ recon[1].y < map_size.y
        /\ (\/ RecoveredNative.x < 0
            \/ RecoveredNative.y < 0
            \/ RecoveredNative.x >= map_size.x
            \/ RecoveredNative.y >= map_size.y) => recon = NoTile

\* C3 witness: a position whose native coordinate is exactly the extent in x
\* was rejected.
C3_Witness ==
    /\ pcall = "from_world_pos"
    /\ RecoveredNative.x = map_size.x
    /\ RecoveredNative.y >= 0
    /\ RecoveredNative.y < map_size.y
    /\ recon = NoTile

\* the Custom value each preset is said to equal (in quarters)
EquivalentCustom(kind) ==
    CASE kind = "Center"       -> CustomAnchor(0, 0)
      [] kind = "TopLeft"      -> CustomAnchor(-2, 2)
      [] kind = "TopRight"     -> CustomAnchor(2, 2)
      [] kind = "BottomRight"  -> CustomAnchor(2, -2)
      [] kind = "BottomLeft"   -> CustomAnchor(-2, -2)
      [] kind = "TopCenter"    -> CustomAnchor(0, 2)
      [] kind = "BottomCenter" -> CustomAnchor(0, -2)
      [] kind = "CenterLeft"   -> CustomAnchor(-2, 0)
      [] kind = "CenterRight"  -> CustomAnchor(2, 0)

\* C4: for every map extent, grid size, tile size and layout, the as_offset
\* of each preset (other than None) equals the as_offset of its Custom value:
\* Center = Custom(0,0), TopLeft = Custom(-0.5,0.5), TopRight = Custom(0.5,0.5),
\* BottomRight = Custom(0.5,-0.5), and likewise for the other five.
C4_PresetsEqualCustom ==
    (pcall = "as_offset" /\ anchor.kind \in AnchorPresets \ {"None"}) =>
        offset = as_offset(EquivalentCustom(anchor.kind), map_size,
                           grid_size, tile_size, map_type)

\* C4 witness: TopLeft on a 2x3 diamond map whose tiles are larger than the
\* grid gave an offset that is not zero in either axis.
C4_Witness ==
    /\ pcall = "as_offset"
    /\ anchor = NamedAnchor("TopLeft")
    /\ map_type = [kind |-> "Isometric", sys |-> "Diamond"]
    /\ map_size = Vec2(2, 3)
    /\ tile_size # grid_size
    /\ offset.x # 0
    /\ offset.y # 0

-----------------------------------------------------------------------------
(* Claims about the integer grid functions, checked under SpecGrid *)

\* the step a compass direction names: East is +x, North is +y
CompassStep(d) ==
    [x |-> CASE d \in {"East", "NorthEast", "SouthEast"} -> 1
             [] d \in {"West", "NorthWest", "SouthWest"} -> -1
             [] OTHER -> 0,
     y |-> CASE d \in {"North", "NorthEast", "NorthWest"} -> 1
             [] d \in {"South", "SouthEast", "SouthWest"} -> -1
             [] OTHER -> 0]

\* Some(coord + step of d) when that lies in [0,width) x [0,height), else None
ExpectedNeighbor(d) ==
    LET x == coord.x + CompassStep(d).x
        y == coord.y + CompassStep(d).y
    IN IF 0 <= x /\ x < extent.x /\ 0 <= y /\ y < extent.y
       THEN SomeTile(x, y)
       ELSE NoTile

\* C7: for an in-bounds position, each of the 8 directions of
\* get_square_neighboring_positions and square_offset is Some(pos + offset)
\* exactly when that coordinate is inside the map, independently of the other
\* directions; without diagonals the four diagonals are None; at (0,0) on a
\* 2x2 map with diagonals exactly East, North and NorthEast are present.
C7_SquareNeighborsClampToMap ==
    /\ call.fn = "get_square_neighboring_positions" =>
          /\ DOMAIN result = {SquareDirections[i] : i \in 1..8}
          /\ \A d \in DOMAIN result :
                result[d] = IF d \in DiagonalDirections
                               /\ ~call.include_diagonals
                            THEN NoTile
                            ELSE ExpectedNeighbor(d)
          /\ (coord = [x |-> 0, y |-> 0] /\ extent = [x |-> 2, y |-> 2]
              /\ call.include_diagonals) =>
                {d \in DOMAIN result : result[d] # NoTile}
                    = {"East", "North", "NorthEast"}
    /\ call.fn = "square_offset" => result = ExpectedNeighbor(call.direction)

\* C7 witness: the corner (0,0) of a 2x2 map queried with diagonals, where
\* West is off the map and NorthEast is on it.
C7_Witness ==
    /\ call.fn = "get_square_neighboring_positions"
    /\ call.include_diagonals
    /\ coord = [x |-> 0, y |-> 0]
    /\ extent = [x |-> 2, y |-> 2]
    /\ result["West"] = NoTile
    /\ result["NorthEast"] = SomeTile(1, 1)

\* C8: offset -> axial -> offset and axial -> offset -> axial return the
\* starting coordinate for each of the four parity conventions, and an axial
\* position that maps into the map is recovered from its TilePos in every
\* HexCoordSystem.
C8_HexConversionsRoundTrip ==
    /\ call.fn \in {"offset_axial_offset", "axial_offset_axial"} =>
          result.back = CoordAsAxial
    /\ (call.fn = "axial_tile_axial" /\ result.tile # NoTile) =>
          result.back = <<CoordAsAxial>>

\* C8 witness: an axial position whose RowOdd TilePos differs from it was
\* converted into the map and back.
C8_Witness ==
    /\ call.fn = "axial_tile_axial"
    /\ call.sys = "RowOdd"
    /\ result.tile # NoTile
    /\ result.tile # SomeTile(coord.x, coord.y)
    /\ result.back = <<CoordAsAxial>>

SeqRange(sq) == {sq[i] : i \in 1..Len(sq)}

\* C5: generate_hex_ring(origin, 0) = [origin]; for r > 0 the ring has 6r
\* elements, no duplicates, and every element is at hex distance r from origin.
C5_RingLengthDistinctDistance ==
    call.fn = "generate_hex_ring" =>
        IF call.radius = 0
        THEN result = <<CoordAsAxial>>
        ELSE /\ Len(result) = 6 * call.radius
             /\ Cardinality(SeqRange(result)) = Len(result)
             /\ \A i \in 1..Len(result) :
                   hex_distance(result[i], CoordAsAxial) = call.radius

\* C5 witness: a ring of radius 2 around an origin other than (0,0).
C5_Witness ==
    /\ call.fn = "generate_hex_ring"
    /\ call.radius = 2
    /\ coord # [x |-> 0, y |-> 0]
    /\ Len(result) = 12

\* number of cells of the hexagon of radius r
HexagonArea(r) == 1 + 3 * r * (r + 1)

\* C6: generate_hexagon(origin, r) is the rings of radius 0..r one after the
\* other, has 1 + 3r(r+1) elements and contains every element of every ring
\* of radius r' <= r.
C6_HexagonIsRingsInOrder ==
    call.fn = "generate_hexagon" =>
        /\ Len(result) = HexagonArea(call.radius)
        /\ \A r \in 0..call.radius :
              LET ring == generate_hex_ring(CoordAsAxial, r)
                  start == IF r = 0 THEN 0 ELSE HexagonArea(r - 1)
              IN /\ start + Len(ring) <= Len(result)
                 /\ \A i \in 1..Len(ring) : result[start + i] = ring[i]
                 /\ SeqRange(ring) \subseteq SeqRange(result)

\* C6 witness: a hexagon of radius 2, 19 cells, the last being the last cell
\* of the ring of radius 2.
C6_Witness ==
    /\ call.fn = "generate_hexagon"
    /\ call.radius = 2
    /\ Len(result) = 19
    /\ result[19] = generate_hex_ring(CoordAsAxial, 2)[12]

-----------------------------------------------------------------------------
(* Claims about the tile storage, checked under Spec *)

\* what the calls made so far say position p holds
CellMatchesShadow(p) ==
    /\ get(tiles, size, p) = [panic |-> FALSE, val |-> shadow[p]]
    /\ checked_get(tiles, size, p) = [panic |-> FALSE, val |-> shadow[p]]

\* C1 (state part): after in-bounds calls and fully consumed drains, get and
\* checked_get return, at every in-bounds position, the entity of the most
\* recent set not followed by a remove or a drain, and None otherwise; a get
\* just made returned that entity; the number of cells is width * height.
C1_StateMatchesPartialMap ==
    /\ Len(tiles) = size.x * size.y
    /\ (clean /\ drainIx = -1) =>
          \A p \in InBounds(size) : CellMatchesShadow(p)
    /\ (clean /\ op \in {"get", "checked_get"}) =>
          (~panicked /\ ret = shadow[pos])

\* C1 (step part): an in-bounds remove or checked_remove returns exactly what
\* get returned just before it.
C1_RemoveReturnsPreviousGet ==
    (clean' /\ op' \in {"remove", "checked_remove"}) =>
        (~panicked' /\ ret' = get(tiles, size, pos').val)

\* C1: TileStorage behaves as a partial map from in-bounds grid coordinate to
\* entity under set, checked_set, remove, checked_remove and fully consumed
\* drains at in-bounds positions; remove(p) returns what get(p) returned just
\* before; the number of cells stays width * height.
C1_StorageIsPartialMap ==
    [](C1_StateMatchesPartialMap) /\ [][C1_RemoveReturnsPreviousGet]_vars

\* C1 witness: after in-bounds calls only, a remove has just returned entity
\* 2 while another cell still holds entity 1.
C1_Witness ==
    /\ clean
    /\ op = "remove"
    /\ ret = 2
    /\ \E p \in InBounds(size) : shadow[p] = 1

\* C9: the unchecked accessors get, set and remove panic for every tile_pos
\* outside the extents (x >= size.x or y >= size.y).
C9_UncheckedAccessorsPanicOutOfBounds ==
    (op \in {"get", "set", "remove"} /\ ~within_map_bounds(pos, size))
        => panicked

\* C10: checked_remove returns None and leaves every cell unchanged for every
\* tile_pos outside the extents, and behaves as remove for in-bounds ones.
C10_CheckedRemoveChecksExtents ==
    [][op' = "checked_remove" =>
          IF within_map_bounds(pos', size)
          THEN /\ ret' = remove(tiles, size, pos').val
               /\ tiles' = remove(tiles, size, pos').tiles
          ELSE /\ ret' = None
               /\ tiles' = tiles]_vars

\* C11: checked_get never panics, changes no cell, returns None for every
\* position with x >= size.x or y >= size.y and what get returns for an
\* in-bounds one; checked_set never panics, leaves every cell unchanged for
\* an out-of-bounds position and has the effect of set for an in-bounds one.
C11_CheckedGetSetTreatOutOfBoundsAsAbsent ==
    [][/\ op' = "checked_get" =>
            /\ ~panicked'
            /\ tiles' = tiles
            /\ ret' = IF within_map_bounds(pos', size)
                      THEN get(tiles, size, pos').val
                      ELSE None
            /\ within_map_bounds(pos', size) => ~get(tiles, size, pos').panic
       /\ op' = "checked_set" =>
            /\ ~panicked'
            /\ IF within_map_bounds(pos', size)
               THEN \E e \in Entities :
                       /\ set(tiles, size, pos', e) =
                              [panic |-> FALSE, tiles |-> tiles']
                       /\ clean' => shadow'[pos'] = e
               ELSE tiles' = tiles]_vars

\* C11 witness: a checked_get one column past the extent returned None while
\* the cell its flattened index falls on holds an entity.
C11_Witness ==
    /\ op = "checked_get"
    /\ ~within_map_bounds(pos, size)
    /\ to_index(pos, size) < Len(tiles)
    /\ tiles[to_index(pos, size) + 1] # None
    /\ ret = None
    /\ ~panicked

\* the entities of the occupied cells of ts, in ascending cell index
OccupiedInOrder(ts) == SelectSeq(ts, LAMBDA e : e # None)

\* C12: once the iterator of drain() is fully consumed it has yielded exactly
\* one item per cell that was occupied when drain() was called, the entity
\* held there, in ascending cell-index order, and every cell is None.
C12_DrainYieldsAllAndEmpties ==
    op = "drain_done" =>
        /\ yielded = OccupiedInOrder(drainStart)
        /\ Len(yielded) = Cardinality({i \in 1..Len(drainStart) :
                                          drainStart[i] # None})
        /\ \A i \in 1..Len(tiles) : tiles[i] = None
        /\ Len(tiles) = Len(drainStart)

\* C12 witness: a drain of a storage whose first cell was empty and that held
\* entity 2 before entity 1 was consumed to its end.
C12_Witness ==
    /\ op = "drain_done"
    /\ drainStart[1] = None
    /\ yielded = <<2, 1>>

\* C13: from_i32_pair(x, y, map_size) is Some(TilePos{x, y}) if and only if
\* 0 <= x < map_size.x and 0 <= y < map_size.y, and None otherwise; the
\* as_tile_pos of SquarePos, DiamondPos and StaggeredPos give the same.
C13_FromI32PairIffInMap ==
    call.fn = "from_i32_pair" =>
        /\ result.direct =
              IF 0 <= coord.x /\ coord.x < extent.x
                 /\ 0 <= coord.y /\ coord.y < extent.y
              THEN <<[x |-> coord.x, y |-> coord.y]>>
              ELSE <<>>
        /\ result.square = result.direct
        /\ result.diamond = result.direct
        /\ result.staggered = result.direct

\* C13 witness: a pair with a negative x that is below the extent in both
\* axes was rejected.
C13_Witness ==
    /\ call.fn = "from_i32_pair"
    /\ coord.x < 0
    /\ coord.y >= 0
    /\ coord.y < extent.y
    /\ result.direct = NoTile
    /\ result.diamond = NoTile

-----------------------------------------------------------------------------
(* Further claims about the projection functions, checked under SpecProj *)

\* the position from_world_pos was given, less the anchor offset
Unanchored ==
    Vec2Sub(world, as_offset(anchor, map_size, grid_size, tile_size, map_type))

\* cell index c owns [(c - 0.5) * g, (c + 0.5) * g) along an axis
OwnsHalfOpen(c, v, g) == (2 * c - 1) * g <= 2 * v /\ 2 * v < (2 * c + 1) * g

\* the cell indices a position near the map can fall in
NearbyCells == (0 - MaxMapDim - 3)..(MaxMapDim + 3)

\* C14: on a Square map from_world_pos maps p = world_pos - anchor offset to
\* the cell (x, y) whose half-open intervals [(x - 0.5) * grid.x,
\* (x + 0.5) * grid.x) and [(y - 0.5) * grid.y, (y + 0.5) * grid.y) hold p,
\* so a position on the boundary between x and x + 1 goes to x + 1, and the
\* cell is returned only if it lies in the map extent.
C14_SquareRoundsHalfUp ==
    (pcall = "from_world_pos" /\ map_type.kind = "Square") =>
        \E cx \in NearbyCells, cy \in NearbyCells :
            /\ OwnsHalfOpen(cx, Unanchored.x, grid_size.x)
            /\ OwnsHalfOpen(cy, Unanchored.y, grid_size.y)
            /\ recon = IF 0 <= cx /\ cx < map_size.x
                          /\ 0 <= cy /\ cy < map_size.y
                       THEN <<[x |-> cx, y |-> cy]>>
                       ELSE <<>>

\* C14 witness: a position exactly half a cell to the right of the center of
\* tile (0, y) on a Square map at least two cells wide was assigned to cell 1.
C14_Witness ==
    /\ pcall = "from_world_pos"
    /\ map_type.kind = "Square"
    /\ anchor.kind = "Center"
    /\ tile.x = 0
    /\ 2 * Unanchored.x = grid_size.x
    /\ recon = SomeTile(1, tile.y)

\* the tiles of the map
TilesOfMap == {c \in [x : 0..(map_size.x - 1), y : 0..(map_size.y - 1)] : TRUE}

\* C15: the anchor is a pure translation.  as_offset of None is (0, 0) for
\* every extent, cell size and layout; center_in_world is as_offset plus
\* center_in_world_unanchored, the offset being the same for every tile, so
\* the displacement between the centers of two tiles under any anchor is
\* their displacement without an anchor, hence the same under every anchor;
\* from_world_pos gives what it gives, without an anchor, for the position
\* less the same offset.
C15_AnchorIsPureTranslation ==
    /\ (pcall = "as_offset" /\ anchor.kind = "None") => offset = Vec2(0, 0)
    /\ pcall = "center_in_world" =>
          /\ world = Vec2Add(
                         as_offset(anchor, map_size, grid_size, tile_size,
                                   map_type),
                         center_in_world_unanchored(tile, grid_size, map_type))
          /\ \A t2 \in TilesOfMap :
                Vec2Sub(world,
                        center_in_world(t2, map_size, grid_size, tile_size,
                                        map_type, anchor))
                  = Vec2Sub(center_in_world(tile, map_size, grid_size,
                                            tile_size, map_type,
                                            NamedAnchor("None")),
                            center_in_world(t2, map_size, grid_size,
                                            tile_size, map_type,
                                            NamedAnchor("None")))
    /\ pcall = "from_world_pos" =>
          recon = from_world_pos(Unanchored, map_size, grid_size, tile_size,
                                 map_type, NamedAnchor("None"))

\* C15 witness: the center of a tile other than (0,0) under BottomRight, which
\* differs from its unanchored center in both axes.
C15_Witness ==
    /\ pcall = "center_in_world"
    /\ anchor = NamedAnchor("BottomRight")
    /\ tile = TilePos(1, 2)
    /\ LET u == center_in_world_unanchored(tile, grid_size, map_type)
       IN world.x # u.x /\ world.y # u.y

-----------------------------------------------------------------------------
(* Claims about chunk_aabb, checked under SpecGrid *)

\* the projections of the corner offsets (0,0), (1,0), (0,1), (1,1) scaled by
\* the chunk size coord
ProjectedCorners ==
    {center_in_world_unanchored(TilePos(i * coord.x, j * coord.y),
                                call.grid_size, call.map_type) :
        i \in {0, 1}, j \in {0, 1}}

Least(S) == CHOOSE v \in S : \A w \in S : v <= w

Greatest(S) == CHOOSE v \in S : \A w \in S : v >= w

\* twice the border: max(grid_size, tile_size) per axis
TwiceBorder ==
    [x |-> IF call.grid_size.x >= call.tile_size.x
           THEN call.grid_size.x ELSE call.tile_size.x,
     y |-> IF call.grid_size.y >= call.tile_size.y
           THEN call.grid_size.y ELSE call.tile_size.y]

-----------------------------------------------------------------------------
(* Claims about the BottomLeft anchor, checked under SpecProj *)

-----------------------------------------------------------------------------
(* Claims about the fill functions, checked under SpecFill *)

\* the cells of the storage
FillCells == [x : 0..(fsize.x - 1), y : 0..(fsize.y - 1)]

\* the entities spawned by the call: all but the tilemap entity
SpawnedIds == (Len(TilemapOnly) + 1)..Len(world_entities)

\* C19: after fill_tilemap(size) on a storage whose size equals size, every
\* position (x, y) with x < size.x and y < size.y holds Some(entity), the
\* width * height stored entities are pairwise distinct and were spawned by
\* the call, and the TilePos component of each is the cell it is stored in.
C19_FillTilemapFillsEveryCell ==
    (fcall.fn = "fill_tilemap" /\ fcall.size = fsize) =>
        /\ ~fpanicked
        /\ Cardinality(SpawnedIds) = fsize.x * fsize.y
        /\ \A p \in FillCells :
              LET e == get(ftiles, fsize, p).val
              IN /\ e # None
                 /\ e \in SpawnedIds
                 /\ world_entities[e] = <<p>>
        /\ \A p \in FillCells, q \in FillCells :
              p # q => get(ftiles, fsize, p).val # get(ftiles, fsize, q).val

\* C19 witness: a 2x3 storage whose cells all held entity 1 was filled; cell
\* (1, 2), the last one visited, holds the seventh entity of the world.
C19_Witness ==
    /\ fcall.fn = "fill_tilemap"
    /\ fcall.size = fsize
    /\ fsize = [x |-> 2, y |-> 3]
    /\ ~fpanicked
    /\ get(ftiles, fsize, TilePos(1, 2)).val = 7
    /\ world_entities[7] = <<TilePos(1, 2)>>

\* C20: fill_tilemap_hexagon spawns no tile entity for a hexagon position
\* outside the extents of the storage and stores nothing for it, so the
\* number of entities it creates is the number of hexagon positions that lie
\* within the map.
C20_HexagonFillCreatesOnlyTilesThatFit ==
    fcall.fn = "fill_tilemap_hexagon" =>
        LET positions == hexagon_tile_positions(fcall.origin, fcall.radius,
                                                fcall.sys)
        IN /\ \A e \in SpawnedIds :
                 within_map_bounds(world_entities[e][1], fsize)
           /\ Cardinality(SpawnedIds) =
                 Cardinality({k \in 1..Len(positions) :
                                 within_map_bounds(positions[k], fsize)})

-----------------------------------------------------------------------------
(* Claims about the coordinate conversions and neighbours, under SpecGrid *)

TilesOfExtent == [x : 0..(extent.x - 1), y : 0..(extent.y - 1)]

\* C22: the hex neighbour lookup returns exactly six entries, one per
\* direction.  The entry for direction d is Some(t) exactly when t is the tile
\* of the map whose axial position is the axial position of the tile plus the
\* unit offset of d, and that t is at cube distance 1 from the tile; it is
\* None when no tile of the map has that axial position.  For tile (0, 2) on a
\* 3 x 3 map in the Row system directions One, Two and Three are None and
\* Zero, Four and Five are Some.
C22_HexNeighborsAreInBoundsAxialSteps ==
    call.fn = "get_neighboring_positions" =>
        LET here == from_tile_pos_given_coord_system(coord, call.sys)
            AtStep(d) == {t \in TilesOfExtent :
                             from_tile_pos_given_coord_system(t, call.sys)
                               = AxialAdd(here, HEX_OFFSETS[d])}
        IN /\ DOMAIN result = 1..6
           /\ \A d \in 1..6 :
                 /\ Cardinality(AtStep(d)) <= 1
                 /\ AtStep(d) = {} => result[d] = NoTile
                 /\ \A t \in AtStep(d) :
                       /\ result[d] = SomeTile(t.x, t.y)
                       /\ hex_distance(
                              from_tile_pos_given_coord_system(t, call.sys),
                              here) = 1
           /\ (/\ coord = TilePos(0, 2)
               /\ extent = [x |-> 3, y |-> 3]
               /\ call.sys = "Row")
                 => /\ result[2] = NoTile /\ result[3] = NoTile
                    /\ result[4] = NoTile
                    /\ result[1] # NoTile /\ result[5] # NoTile
                    /\ result[6] # NoTile

\* C22 witness: the lookup of the test
\* border_tiles_clamp_neighbors_out_of_bounds.
C22_Witness ==
    /\ call.fn = "get_neighboring_positions"
    /\ coord = TilePos(0, 2)
    /\ extent = [x |-> 3, y |-> 3]
    /\ call.sys = "Row"
    /\ result = <<SomeTile(1, 2), NoTile, NoTile, NoTile,
                  SomeTile(0, 1), SomeTile(1, 1)>>

\* C23: to_index is row-major, y * size.x + x, and within_map_bounds is
\* x < size.x and y < size.y; on the positions within the map to_index is a
\* bijection onto 0 .. size.x * size.y - 1: the index of a position in the map
\* is below width * height, no other position in the map has it, and every
\* index below width * height is the index of a position in the map.
C23_ToIndexIsRowMajorBijection ==
    call.fn = "to_index" =>
        /\ result.index = coord.y * extent.x + coord.x
        /\ result.within <=> (coord.x < extent.x /\ coord.y < extent.y)
        /\ result.within =>
              /\ result.index \in 0..(extent.x * extent.y - 1)
              /\ \A t \in TilesOfExtent :
                    to_index(t, extent) = result.index => t = coord
        /\ \A i \in 0..(extent.x * extent.y - 1) :
              \E t \in TilesOfExtent :
                  within_map_bounds(t, extent) /\ to_index(t, extent) = i

\* C23 witness: the index of the last position, (2, 1), of a 3 x 2 map is 5.
C23_Witness ==
    /\ call.fn = "to_index"
    /\ extent = [x |-> 3, y |-> 2]
    /\ coord = TilePos(2, 1)
    /\ result = [index |-> 5, within |-> TRUE]

\* the coordinate a step in direction d leads to in a layout: the square step
\* in the square and diamond layouts; in the staggered layout the square step
\* between the shear (y + x) and its inverse (y - x)
SteppedCoordinate(layout, d) ==
    LET s == CompassStep(d)
    IN IF layout = "Staggered"
       THEN [x |-> coord.x + s.x, y |-> ((coord.y + coord.x) + s.y) - (coord.x + s.x)]
       ELSE [x |-> coord.x + s.x, y |-> coord.y + s.y]

\* C24: stepping to a neighbour and back is the identity.  For a position p
\* of the map and a direction d, square_offset, diamond_offset and
\* staggered_offset give Some(q) exactly when the square step, taken through
\* the layout's coordinate conversion, stays in the map, q being where it
\* leads; then the step from q in the opposite direction gives Some(p).
\* North from (1, 1) gives (1, 2) in all three layouts.
C24_NeighbourStepAndBackIsIdentity ==
    call.fn = "offset_and_back" =>
        LET q == SteppedCoordinate(call.layout, call.direction)
        IN /\ result.there =
                 IF 0 <= q.x /\ q.x < extent.x /\ 0 <= q.y /\ q.y < extent.y
                 THEN SomeTile(q.x, q.y)
                 ELSE NoTile
           /\ result.there # NoTile => result.back = SomeTile(coord.x, coord.y)
           /\ CompassStep(opposite(call.direction))
                 = [x |-> 0 - CompassStep(call.direction).x,
                    y |-> 0 - CompassStep(call.direction).y]
           /\ (coord = TilePos(1, 1) /\ call.direction = "North"
               /\ extent.y >= 3)
                 => result.there = SomeTile(1, 2)

\* C24 witness: East from (1, 1) on a 3 x 3 staggered map leads to (2, 0),
\* and West from there leads back.
C24_Witness ==
    /\ call.fn = "offset_and_back"
    /\ call.layout = "Staggered"
    /\ call.direction = "East"
    /\ extent = [x |-> 3, y |-> 3]
    /\ coord = TilePos(1, 1)
    /\ result = [there |-> SomeTile(2, 0), back |-> SomeTile(1, 1)]

-----------------------------------------------------------------------------
(* Further claims about the tile storage, checked under Spec *)

\* the indices of the occupied cells
OccupiedCells(ts) == {i \in 1..Len(ts) : ts[i] # None}

\* the index of the k-th occupied cell, in index order
NthOccupied(ts, k) ==
    CHOOSE i \in OccupiedCells(ts) :
        Cardinality({j \in OccupiedCells(ts) : j <= i}) = k

\* C25: map_entities calls the mapper exactly once for the entity of every
\* occupied cell, in index order, and writes what it returns back to the
\* same cell; an empty cell stays None, no entity moves to another cell, and
\* the size of the storage and the number of its cells do not change.
C25_MapEntitiesMapsEachCellInPlace ==
    [][op' = "map_entities" =>
          /\ size' = size
          /\ Len(tiles') = Len(tiles)
          /\ \A i \in 1..Len(tiles) : tiles[i] = None <=> tiles'[i] = None
          /\ Len(mapped') = Cardinality(OccupiedCells(tiles))
          /\ \A k \in 1..Len(mapped') :
                /\ mapped'[k].source = tiles[NthOccupied(tiles, k)]
                /\ tiles'[NthOccupied(tiles, k)] = mapped'[k].target
          /\ \E entity_mapper \in Mappers :
                \A k \in 1..Len(mapped') :
                    mapped'[k].target = entity_mapper[mapped'[k].source]
    ]_vars

\* C25 witness: a 2 x 2 storage with entity 1 at (0, 0) and entity 2 at
\* (0, 1) was mapped by the mapper that gives the next entity: two calls,
\* the entities exchanged in place, the other two cells still empty.
C25_Witness ==
    /\ op = "map_entities"
    /\ size = [x |-> 2, y |-> 2]
    /\ mapped = <<[source |-> 1, target |-> 2], [source |-> 2, target |-> 1]>>
    /\ tiles = <<2, None, 1, None>>

-----------------------------------------------------------------------------
(* Claims about the placement of the whole map, checked under SpecProj *)

\* the unanchored center of tile (0, 0)
LowCenter == center_in_world_unanchored(TilePos(0, 0), grid_size, map_type)

\* the unanchored center of tile (width - 1, height - 1)
HighCenter ==
    center_in_world_unanchored(TilePos(map_size.x - 1, map_size.y - 1),
                               grid_size, map_type)

\* C26: get_tilemap_center_transform places the center of the map at
\* (0, 0, z).  Its translation is (-d.x / 2, -d.y / 2, z), d being the
\* unanchored center of tile (width - 1, height - 1) less that of tile
\* (0, 0); moved by it, the centers of those two tiles are negatives of each
\* other; on Square and Isometric-Diamond maps it is the offset as_offset
\* gives for the anchor Center when the tile size is the grid size.
C26_CenterTransformCentersTheMap ==
    pcall = "get_tilemap_center_transform" =>
        LET d == Vec2Sub(HighCenter, LowCenter) IN
        /\ 2 * offset.x = 0 - d.x
        /\ 2 * offset.y = 0 - d.y
        /\ offset.z = world.z
        /\ LowCenter.x + offset.x = 0 - (HighCenter.x + offset.x)
        /\ LowCenter.y + offset.y = 0 - (HighCenter.y + offset.y)
        /\ (map_type.kind = "Square" \/ map_type.sys = "Diamond") =>
              Vec2(offset.x, offset.y)
                = as_offset(NamedAnchor("Center"), map_size, grid_size,
                            grid_size, map_type)

\* C26 witness: a 3 x 2 Square map of 1.0 x 1.0 cells placed at z = 1.0: the
\* centers span (2.0, 1.0) and the translation is (-1.0, -0.5, 1.0).
C26_Witness ==
    /\ pcall = "get_tilemap_center_transform"
    /\ map_type.kind = "Square"
    /\ map_size = [x |-> 3, y |-> 2]
    /\ grid_size = Vec2(16, 16)
    /\ offset = [x |-> -16, y |-> -8, z |-> 16]

-----------------------------------------------------------------------------
(* Further claims about the fill functions, checked under SpecFill *)

\* the cells of the storage of the fill functions
StorageCells == [x : 0..(fsize.x - 1), y : 0..(fsize.y - 1)]

\* p lies in the rectangle [origin.x, origin.x + size.x) x
\* [origin.y, origin.y + size.y)
InRectangle(p, origin, rsize) ==
    /\ origin.x <= p.x /\ p.x < origin.x + rsize.x
    /\ origin.y <= p.y /\ p.y < origin.y + rsize.y

\* C27: fill_tilemap_rect and fill_tilemap_rect_color modify only the cells
\* of the rectangle.  When the call returns without panicking, every cell of
\* the storage outside the rectangle holds what it held before, and every
\* entity the call stored is in the cell of its own TilePos component, also
\* when the rectangle extends past the width of the storage.
C27_RectFillTouchesOnlyTheRectangle ==
    [][(/\ fcall'.fn \in {"fill_tilemap_rect", "fill_tilemap_rect_color"}
        /\ ~fpanicked')
         => /\ \A p \in StorageCells :
                  ~InRectangle(p, fcall'.origin, fcall'.size)
                    => ftiles'[to_index(p, fsize) + 1]
                         = ftiles[to_index(p, fsize) + 1]
            /\ \A p \in StorageCells :
                  LET e == ftiles'[to_index(p, fsize) + 1]
                  IN e > Len(world_entities) => world_entities'[e] = <<p>>
    ]_vars

-----------------------------------------------------------------------------
(* The laziness of drain, checked under Spec *)

\* C28: drain is lazy.  Creating the iterator removes nothing, and dropping
\* it before any item is taken leaves the storage as it was.  After k items
\* have been taken, the k-th item is the entity of the k-th occupied cell (in
\* index order, as of the call of drain), every cell up to and including
\* that one is None, and every later cell holds what it held; dropping the
\* iterator then changes nothing more.
C28_DrainIsLazy ==
    [][/\ op' = "drain" => (tiles' = tiles /\ drainStart' = tiles)
       /\ (op = "drain" /\ op' = "drain_drop") => tiles' = drainStart
       /\ op' = "drain_drop" => tiles' = tiles
       /\ op' = "drain_next" =>
             LET k == Len(yielded')
                 n == NthOccupied(drainStart, k)
             IN /\ k = Len(yielded) + 1
                /\ k <= Cardinality(OccupiedCells(drainStart))
                /\ yielded'[k] = drainStart[n]
                /\ \A i \in 1..Len(tiles') :
                      tiles'[i] = IF i <= n THEN None ELSE drainStart[i]
    ]_vars

\* C28 witness: one item taken from a storage that held entity 2 in its
\* second cell and entity 1 in its fourth: the first two cells are None and
\* the fourth still holds entity 1.
C28_Witness ==
    /\ op = "drain_next"
    /\ drainStart = <<None, 2, None, 1>>
    /\ yielded = <<2>>
    /\ tiles = <<None, None, None, 1>>

-----------------------------------------------------------------------------
(* The order of the hex ring, checked under SpecGrid *)

\* C29: for r > 0, generate_hex_ring(origin, r) is a closed walk around the
\* ring: each element is at hex distance 1 from the next one and the last is
\* at distance 1 from the first; the corner origin + r * direction i is at
\* (0-based) index i * r for i = 0..5; and the result is the ring for origin
\* (0, 0) translated by origin.
C29_RingIsClosedWalk ==
    (call.fn = "generate_hex_ring" /\ call.radius > 0) =>
        LET r == call.radius
            n == Len(result)
            atZero == generate_hex_ring(AxialPos(0, 0), r)
        IN /\ n = 6 * r
           /\ \A i \in 1..(n - 1) : hex_distance(result[i], result[i + 1]) = 1
           /\ hex_distance(result[n], result[1]) = 1
           /\ \A i \in 0..5 :
                 result[i * r + 1]
                   = AxialPos(coord.x + r * HEX_OFFSETS[i + 1].q,
                              coord.y + r * HEX_OFFSETS[i + 1].r)
           /\ Len(atZero) = n
           /\ \A i \in 1..n :
                 result[i] = AxialPos(atZero[i].q + coord.x,
                                      atZero[i].r + coord.y)

\* C29 witness: the ring of radius 2 around (1, -1): it starts at the corner
\* (3, -1), its third element is the corner (1, 1), and its last element,
\* (3, -2), is next to the first.
C29_Witness ==
    /\ call.fn = "generate_hex_ring"
    /\ call.radius = 2
    /\ coord = [x |-> 1, y |-> -1]
    /\ result[1] = AxialPos(3, -1)
    /\ result[3] = AxialPos(1, 1)
    /\ result[12] = AxialPos(3, -2)

-----------------------------------------------------------------------------
(* The corner anchors on a Square map, checked under SpecProj *)

\* twice the half extent of a tile: the larger of grid and tile size
TwiceHalfExtent ==
    Vec2(Max2(grid_size.x, tile_size.x), Max2(grid_size.y, tile_size.y))

-----------------------------------------------------------------------------
=============================================================================
